---------------------------- MODULE Spec2Model ----------------------------
(***************************************************************************)
(* A model of lib/ofp-monitor.c: the codec for OpenFlow flow-removed       *)
(* notifications, flow-monitor requests, flow-update streams and           *)
(* forwarded requests.                                                     *)
(*                                                                         *)
(* Wire data is modelled as sequences of bytes (0..255).  Quantities wider *)
(* than 16 bits (cookies, counters, 32-bit ids and ports) are kept as      *)
(* big-endian byte tuples, so that htonl/htonll/ntohl/ntohll are the       *)
(* identity on them and the sentinels UINT32_MAX / UINT64_MAX are the      *)
(* all-ones tuples.  16-bit and 8-bit quantities are naturals and are      *)
(* stored through their width.                                             *)
(*                                                                         *)
(* The values of the protocol enumerations and the sizes of the wire       *)
(* structs are those of the OpenFlow headers the file includes             *)
(* (openflow/nicira-ext.h, openflow/openflow-1.4.h, ...).                  *)
(***************************************************************************)
EXTENDS Integers, Sequences, FiniteSets, TLC

VARIABLES
    pc,        \* where the calling code stands
    protocol,  \* the enum ofputil_protocol handed to the encoders
    flg,       \* flag translators: the word given and the words returned
    fr,        \* flow removed: the caller's struct ofputil_flow_removed
    frmsg,     \* flow removed: the encoded message (empty before encoding)
    frdec,     \* flow removed: what ofputil_decode_flow_removed filled in
    frerr,     \* flow removed: what ofputil_decode_flow_removed returned
    sent,      \* the records the caller has passed to an append function
    given,     \* flow update: the caller's records as they were before the call
    out,       \* flow-monitor request: the caller's output ofpbuf
    replies,   \* flow update: the caller's list of reply messages
    msg,       \* the cursor (struct ofpbuf) the decoders iterate over
    rq,        \* the caller's struct ofputil_flow_monitor_request
    update,    \* the caller's struct ofputil_flow_update
    ofpacts,   \* the caller's scratch buffer for decoded actions
    result,    \* what the last decode call returned
    calls,     \* one entry per decode call made on the cursor
    cancel,    \* flow-monitor cancel: the id, the message and the return
    heap,      \* request forward: the allocations made so far
    srf,       \* request forward: the wrapper a sender builds for encoding
    drf,       \* request forward: the wrapper a receiver decodes into
    rfio,      \* request forward: the message, the return, the calls left
    next_id,   \* the static counter id of parse_flow_monitor_request__
    thr,       \* the threads that parse filter expressions
    issued     \* the ids handed out so far

vars == <<pc, protocol, flg, fr, frmsg, frdec, frerr, sent, given, out, replies,
          msg, rq, update, ofpacts, result, calls, cancel, heap, srf, drf,
          rfio, next_id, thr, issued>>

(***************************************************************************)
(* Bytes and fixed-width integers.                                         *)
(***************************************************************************)
Byte == 0..255

\* x rounded up to the next multiple of 8 (ROUND_UP(x, 8)).
RoundUp8(x) == ((x + 7) \div 8) * 8

\* htons: the two bytes of a 16-bit value, most significant first.
Htons(x) == << (x \div 256) % 256, x % 256 >>

\* ntohs: the 16-bit value of the two bytes at offset ofs (from 0) of b.
Ntohs(b, ofs) == b[ofs + 1] * 256 + b[ofs + 2]

\* n zero bytes (ofpbuf_put_zeros).
Zeros(n) == [i \in 1..n |-> 0]

\* Bit k of the word f.
Bit(f, k) == (f \div (2 ^ k)) % 2

\* f & mask != 0 and f & ~mask != 0, for 16-bit words.
AnyBit(f, mask) == \E k \in 0..15 : Bit(f, k) = 1 /\ Bit(mask, k) = 1
AnyBitOutside(f, mask) == \E k \in 0..15 : Bit(f, k) = 1 /\ Bit(mask, k) = 0

\* Bytes lo..hi (from 1) of b; empty when hi < lo.
Slice(b, lo, hi) ==
    [i \in 1..(IF hi < lo THEN 0 ELSE hi - lo + 1) |-> b[lo + i - 1]]

\* b without its first n bytes (ofpbuf_pull).
Drop(b, n) == Slice(b, n + 1, Len(b))

\* The sentinels and the zero values of the wide integers.
UINT32_MAX_BE == <<255, 255, 255, 255>>
UINT64_MAX_BE == <<255, 255, 255, 255, 255, 255, 255, 255>>
Zero32 == Zeros(4)
Zero64 == Zeros(8)
UINT16_MAX == 65535

\* Small 32-bit and 64-bit values as big-endian tuples.
Be32(n) == <<0, 0, 0, n % 256>>
Be64(n) == <<0, 0, 0, 0, 0, 0, (n \div 256) % 256, n % 256>>

(***************************************************************************)
(* Protocols and versions (ofputil_protocol_to_ofp_version).               *)
(***************************************************************************)
OFP10_VERSION == 1
OFP11_VERSION == 2
OFP12_VERSION == 3
OFP13_VERSION == 4
OFP14_VERSION == 5
OFP15_VERSION == 6

Protocols == {"OF10_STD", "OF10_STD_TID", "OF10_NXM", "OF10_NXM_TID",
              "OF11_STD", "OF12_OXM", "OF13_OXM", "OF14_OXM", "OF15_OXM"}

\* protocol & OFPUTIL_P_OF14_UP
OF14_UP == {"OF14_OXM", "OF15_OXM"}

ofputil_protocol_to_ofp_version(p) ==
    CASE p \in {"OF10_STD", "OF10_STD_TID", "OF10_NXM", "OF10_NXM_TID"}
           -> OFP10_VERSION
      [] p = "OF11_STD" -> OFP11_VERSION
      [] p = "OF12_OXM" -> OFP12_VERSION
      [] p = "OF13_OXM" -> OFP13_VERSION
      [] p = "OF14_OXM" -> OFP14_VERSION
      [] p = "OF15_OXM" -> OFP15_VERSION

(***************************************************************************)
(* 4.1 The flag translators.                                               *)
(***************************************************************************)
NXFMF_INITIAL == 1
NXFMF_ADD == 2
NXFMF_DELETE == 4
NXFMF_MODIFY == 8
NXFMF_ACTIONS == 16
NXFMF_OWN == 32

OFPFMF_INITIAL == 1
OFPFMF_ADD == 2
OFPFMF_REMOVED == 4
OFPFMF_MODIFY == 8
OFPFMF_INSTRUCTIONS == 16
OFPFMF_NO_ABBREV == 32
OFPFMF_ONLY_OWN == 64

\* flags & bit ? to : 0, for a single-bit mask.
MapBit(flags, bit, to) == IF AnyBit(flags, bit) THEN to ELSE 0

\* nx_to_ofp_flow_monitor_flags with the last line of its table off by one
\* bit: NXFMF_OWN is taken to OFPFMF_NO_ABBREV.
nx_to_ofp_flow_monitor_flags_noown(flags) ==
      MapBit(flags, NXFMF_INITIAL, OFPFMF_INITIAL)
    + MapBit(flags, NXFMF_ADD, OFPFMF_ADD)
    + MapBit(flags, NXFMF_DELETE, OFPFMF_REMOVED)
    + MapBit(flags, NXFMF_MODIFY, OFPFMF_MODIFY)
    + MapBit(flags, NXFMF_ACTIONS, OFPFMF_INSTRUCTIONS)
    + MapBit(flags, NXFMF_OWN, OFPFMF_NO_ABBREV)

nx_to_ofp_flow_monitor_flags(flags) ==
      MapBit(flags, NXFMF_INITIAL, OFPFMF_INITIAL)
    + MapBit(flags, NXFMF_ADD, OFPFMF_ADD)
    + MapBit(flags, NXFMF_DELETE, OFPFMF_REMOVED)
    + MapBit(flags, NXFMF_MODIFY, OFPFMF_MODIFY)
    + MapBit(flags, NXFMF_ACTIONS, OFPFMF_INSTRUCTIONS)
    + MapBit(flags, NXFMF_OWN, OFPFMF_ONLY_OWN)

ofp_to_nx_flow_monitor_flags(flags) ==
      MapBit(flags, OFPFMF_INITIAL, NXFMF_INITIAL)
    + MapBit(flags, OFPFMF_ADD, NXFMF_ADD)
    + MapBit(flags, OFPFMF_REMOVED, NXFMF_DELETE)
    + MapBit(flags, OFPFMF_MODIFY, NXFMF_MODIFY)
    + MapBit(flags, OFPFMF_INSTRUCTIONS, NXFMF_ACTIONS)
    + MapBit(flags, OFPFMF_ONLY_OWN, NXFMF_OWN)


(***************************************************************************)
(* The match codec (nx-match.c, ofp-match.c), at its interface: a match is *)
(* a sequence of field ids; NXM spends 6 bytes on a field, OXM 8, and both *)
(* pad what they write to a multiple of 8.                                 *)
(***************************************************************************)
MatchFields == 1..3

RECURSIVE NxmBytes(_)
NxmBytes(m) ==
    IF m = <<>> THEN <<>>
    ELSE <<0, 0, 2 * Head(m), 2, 0, Head(m)>> \o NxmBytes(Tail(m))

RECURSIVE OxmBytes(_)
OxmBytes(m) ==
    IF m = <<>> THEN <<>>
    ELSE <<128, 0, 2 * Head(m), 4, 0, 0, 0, Head(m)>> \o OxmBytes(Tail(m))

\* nx_pull_raw on the n bytes p: the fields, or an error.
RECURSIVE NxmParse(_)
NxmParse(p) ==
    IF p = <<>> THEN [error |-> "0", match |-> <<>>]
    ELSE IF Len(p) < 6 THEN [error |-> "OFPBMC_BAD_LEN", match |-> <<>>]
    ELSE IF ~(/\ p[1] = 0 /\ p[2] = 0 /\ p[4] = 2 /\ p[5] = 0
              /\ p[6] \in MatchFields /\ p[3] = 2 * p[6])
         THEN [error |-> "OFPBMC_BAD_FIELD", match |-> <<>>]
    ELSE LET rest == NxmParse(Drop(p, 6))
         IN  [error |-> rest.error,
              match |-> IF rest.error = "0" THEN <<p[6]>> \o rest.match
                        ELSE <<>>]

RECURSIVE OxmParse(_)
OxmParse(p) ==
    IF p = <<>> THEN [error |-> "0", match |-> <<>>]
    ELSE IF Len(p) < 8 THEN [error |-> "OFPBMC_BAD_LEN", match |-> <<>>]
    ELSE IF ~(/\ p[1] = 128 /\ p[2] = 0 /\ p[4] = 4 /\ p[5] = 0 /\ p[6] = 0
              /\ p[7] = 0 /\ p[8] \in MatchFields /\ p[3] = 2 * p[8])
         THEN [error |-> "OFPBMC_BAD_FIELD", match |-> <<>>]
    ELSE LET rest == OxmParse(Drop(p, 8))
         IN  [error |-> rest.error,
              match |-> IF rest.error = "0" THEN <<p[8]>> \o rest.match
                        ELSE <<>>]

\* nx_put_match: the bytes appended (padded) and the length returned.
nx_put_match(m) ==
    LET b == NxmBytes(m)
    IN  [bytes |-> b \o Zeros(RoundUp8(Len(b)) - Len(b)), match_len |-> Len(b)]

\* oxm_put_match: an ofp11_match_header of type OFPMT_OXM, the fields, the
\* padding; returns the length without the padding.
oxm_put_match(m) ==
    LET b == <<0, 1>> \o Htons(4 + Len(OxmBytes(m))) \o OxmBytes(m)
    IN  [bytes |-> b \o Zeros(RoundUp8(Len(b)) - Len(b)), match_len |-> Len(b)]

\* The struct ofp11_match of OFPMT_STANDARD: 88 bytes.
OFP11_MATCH_LEN == 88

ofp11_std_put_match(m) ==
    <<0, 0>> \o Htons(OFP11_MATCH_LEN) \o m
             \o Zeros(OFP11_MATCH_LEN - 4 - Len(m))

\* ofputil_put_ofp11_match
ofputil_put_ofp11_match(m, p) ==
    IF p = "OF11_STD" THEN ofp11_std_put_match(m) ELSE oxm_put_match(m).bytes

\* nx_pull_match(b, match_len, ...): what is left of b, the match, the error.
nx_pull_match(b, match_len) ==
    IF match_len = 0
    THEN [error |-> "0", rest |-> b, match |-> <<>>]
    ELSE IF Len(b) < RoundUp8(match_len)
    THEN [error |-> "OFPBMC_BAD_LEN", rest |-> b, match |-> <<>>]
    ELSE LET r == NxmParse(Slice(b, 1, match_len))
         IN  [error |-> r.error, rest |-> Drop(b, RoundUp8(match_len)),
              match |-> r.match]

\* The fields of a standard match: the nonzero bytes at the front.
RECURSIVE StdFields(_)
StdFields(p) ==
    IF p = <<>> \/ Head(p) = 0 THEN <<>> ELSE <<Head(p)>> \o StdFields(Tail(p))

\* ofputil_pull_ofp11_match(buf, ..., match, padded_match_len); padded is the
\* value left in *padded_match_len, which the callers initialise to 0.
ofputil_pull_ofp11_match(b) ==
    IF Len(b) < 4
    THEN [error |-> "OFPBMC_BAD_LEN", rest |-> b, match |-> <<>>, padded |-> 0]
    ELSE LET type == Ntohs(b, 0)
             match_len == Ntohs(b, 2)
         IN  IF type = 0
             THEN IF match_len # OFP11_MATCH_LEN \/ Len(b) < OFP11_MATCH_LEN
                  THEN [error |-> "OFPBMC_BAD_LEN", rest |-> b,
                        match |-> <<>>, padded |-> 0]
                  ELSE [error |-> "0", rest |-> Drop(b, OFP11_MATCH_LEN),
                        match |-> StdFields(Slice(b, 5, OFP11_MATCH_LEN)),
                        padded |-> match_len]
             ELSE IF type = 1
             THEN IF match_len < 4 \/ Len(b) < RoundUp8(match_len)
                  THEN [error |-> "OFPBMC_BAD_LEN", rest |-> b,
                        match |-> <<>>, padded |-> RoundUp8(match_len)]
                  ELSE LET r == OxmParse(Slice(b, 5, match_len))
                       IN  [error |-> r.error,
                            rest |-> Drop(b, RoundUp8(match_len)),
                            match |-> r.match,
                            padded |-> RoundUp8(match_len)]
             ELSE [error |-> "OFPBMC_BAD_TYPE", rest |-> b, match |-> <<>>,
                   padded |-> 0]

(***************************************************************************)
(* 4.3 Flow removed.                                                       *)
(***************************************************************************)
OFPRR_IDLE_TIMEOUT == 0
OFPRR_HARD_TIMEOUT == 1
OFPRR_DELETE == 2
OFPRR_GROUP_DELETE == 3
OFPRR_METER_DELETE == 4
OFPRR_EVICTION == 5
OVS_OFPRR_NONE == 6

\* unknown_to_zero with the test inverted.
unknown_to_zero_inverted(count) ==
    IF count = UINT64_MAX_BE THEN count ELSE Zero64

unknown_to_zero(count) == IF count # UINT64_MAX_BE THEN count ELSE Zero64

\* The reason the encoder writes: meter-delete is downgraded before 1.4.
EncodedReason(f, p) ==
    IF f.reason = OFPRR_METER_DELETE /\ p \notin OF14_UP
    THEN OFPRR_DELETE ELSE f.reason

\* The vendor-extension table id without the wrap to 8 bits.
NxmWireTableId_nowrap(table_id) == IF table_id = 255 THEN 255 ELSE table_id + 1

\* nfr->table_id = fr->table_id + 1, stored in a uint8_t.
NxmWireTableId(table_id) == (table_id + 1) % 256

\* oxs_put_stats / oxs_pull_stat (ox-stat.c), at their interface: the
\* statistics block carries the five values handed to it.
oxs_put_stats(oxs) == <<oxs>>
oxs_pull_stat(s) ==
    IF s = <<>> THEN [error |-> "OFPBMC_BAD_LEN", stats |-> <<>>]
    ELSE [error |-> "0", stats |-> s]

ofputil_encode_flow_removed(f, p) ==
    LET reason == EncodedReason(f, p)
        version == ofputil_protocol_to_ofp_version(p)
    IN  CASE p \in {"OF11_STD", "OF12_OXM", "OF13_OXM", "OF14_OXM"} ->
             [raw |-> "OFPT11_FLOW_REMOVED", version |-> version,
              ofr |-> [cookie |-> f.cookie,
                       priority |-> Htons(f.priority),
                       reason |-> reason % 256,
                       table_id |-> f.table_id % 256,
                       duration_sec |-> f.duration_sec,
                       duration_nsec |-> f.duration_nsec,
                       idle_timeout |-> Htons(f.idle_timeout),
                       hard_timeout |-> Htons(f.hard_timeout),
                       match_len |-> Htons(0),
                       packet_count |-> f.packet_count,
                       byte_count |-> f.byte_count],
              match |-> ofputil_put_ofp11_match(f.match, p),
              stats |-> <<>>]
          [] p = "OF15_OXM" ->
             [raw |-> "OFPT15_FLOW_REMOVED", version |-> version,
              ofr |-> [cookie |-> f.cookie,
                       priority |-> Htons(f.priority),
                       reason |-> reason % 256,
                       table_id |-> f.table_id % 256,
                       duration_sec |-> Zero32,
                       duration_nsec |-> Zero32,
                       idle_timeout |-> Htons(f.idle_timeout),
                       hard_timeout |-> Htons(f.hard_timeout),
                       match_len |-> Htons(0),
                       packet_count |-> Zero64,
                       byte_count |-> Zero64],
              match |-> ofputil_put_ofp11_match(f.match, p),
              stats |-> oxs_put_stats([duration_sec |-> f.duration_sec,
                                       duration_nsec |-> f.duration_nsec,
                                       idle_age |-> UINT32_MAX_BE,
                                       packet_count |-> f.packet_count,
                                       byte_count |-> f.byte_count,
                                       flow_count |-> UINT32_MAX_BE])]
          [] p \in {"OF10_STD", "OF10_STD_TID"} ->
             [raw |-> "OFPT10_FLOW_REMOVED", version |-> OFP10_VERSION,
              ofr |-> [cookie |-> f.cookie,
                       priority |-> Htons(f.priority),
                       reason |-> reason % 256,
                       table_id |-> 0,
                       duration_sec |-> f.duration_sec,
                       duration_nsec |-> f.duration_nsec,
                       idle_timeout |-> Htons(f.idle_timeout),
                       hard_timeout |-> Htons(0),
                       match_len |-> Htons(0),
                       packet_count |-> unknown_to_zero(f.packet_count),
                       byte_count |-> unknown_to_zero(f.byte_count)],
              match |-> f.match,
              stats |-> <<>>]
          [] p \in {"OF10_NXM", "OF10_NXM_TID"} ->
             LET m == nx_put_match(f.match)
             IN  [raw |-> "NXT_FLOW_REMOVED", version |-> OFP10_VERSION,
                  ofr |-> [cookie |-> f.cookie,
                           priority |-> Htons(f.priority),
                           reason |-> reason % 256,
                           table_id |-> NxmWireTableId(f.table_id),
                           duration_sec |-> f.duration_sec,
                           duration_nsec |-> f.duration_nsec,
                           idle_timeout |-> Htons(f.idle_timeout),
                           hard_timeout |-> Htons(0),
                           match_len |-> Htons(m.match_len),
                           packet_count |-> f.packet_count,
                           byte_count |-> f.byte_count],
                  match |-> m.bytes,
                  stats |-> <<>>]

\* The struct filled in from the fixed part, the match and the counters.
FlowRemovedOf(ofr, match, table_id, hard_timeout, st) ==
    [cookie |-> ofr.cookie,
     priority |-> Ntohs(ofr.priority, 0),
     reason |-> ofr.reason,
     table_id |-> table_id,
     duration_sec |-> st.duration_sec,
     duration_nsec |-> st.duration_nsec,
     idle_timeout |-> Ntohs(ofr.idle_timeout, 0),
     hard_timeout |-> hard_timeout,
     packet_count |-> st.packet_count,
     byte_count |-> st.byte_count,
     match |-> match]

\* fr->table_id = nfr->table_id ? nfr->table_id - 1 : 255
NxmTableIdFromWire(w) == IF w # 0 THEN w - 1 ELSE 255

\* ofputil_decode_flow_removed: the error returned and, when it is "0", the
\* struct filled in.
ofputil_decode_flow_removed(m) ==
    CASE m.raw = "OFPT15_FLOW_REMOVED" ->
         LET pm == ofputil_pull_ofp11_match(m.match)
             ps == oxs_pull_stat(m.stats)
         IN  IF pm.error # "0" THEN [error |-> pm.error, fr |-> <<>>]
             ELSE IF ps.error # "0" THEN [error |-> ps.error, fr |-> <<>>]
             ELSE [error |-> "0",
                   fr |-> <<FlowRemovedOf(m.ofr, pm.match, m.ofr.table_id,
                                          Ntohs(m.ofr.hard_timeout, 0),
                                          ps.stats[1])>>]
      [] m.raw = "OFPT11_FLOW_REMOVED" ->
         LET pm == ofputil_pull_ofp11_match(m.match)
         IN  IF pm.error # "0" THEN [error |-> pm.error, fr |-> <<>>]
             ELSE [error |-> "0",
                   fr |-> <<FlowRemovedOf(m.ofr, pm.match, m.ofr.table_id,
                                          Ntohs(m.ofr.hard_timeout, 0),
                                          m.ofr)>>]
      [] m.raw = "OFPT10_FLOW_REMOVED" ->
         [error |-> "0",
          fr |-> <<FlowRemovedOf(m.ofr, m.match, 255, 0, m.ofr)>>]
      [] m.raw = "NXT_FLOW_REMOVED" ->
         LET pm == nx_pull_match(m.match, Ntohs(m.ofr.match_len, 0))
         IN  IF pm.error # "0" THEN [error |-> pm.error, fr |-> <<>>]
             ELSE IF pm.rest # <<>>
             THEN [error |-> "OFPBRC_BAD_LEN", fr |-> <<>>]
             ELSE [error |-> "0",
                   fr |-> <<FlowRemovedOf(m.ofr, pm.match,
                                          NxmTableIdFromWire(m.ofr.table_id),
                                          0, m.ofr)>>]


(***************************************************************************)
(* Buffers (struct ofpbuf) and the raw-type recogniser (ofp-msgs.c), at    *)
(* their interface.  A buffer is its header layer pointer (empty: null),   *)
(* the OpenFlow header still in its data (front) and the bytes after it.   *)
(***************************************************************************)
EmptyBuf == [header |-> <<>>, front |-> <<>>, data |-> <<>>]

\* The bytes of the OpenFlow header (with the statistics and vendor headers)
\* of a message of raw type raw.
HeaderLen(raw) ==
    IF raw \in {"OFPST14_FLOW_MONITOR_REQUEST", "OFPST14_FLOW_MONITOR_REPLY"}
    THEN 16 ELSE 24

\* msg->size
BufSize(b) ==
    (IF b.front = <<>> THEN 0 ELSE HeaderLen(b.front[1].raw)) + Len(b.data)

\* ofpraw_put / ofpraw_alloc_xid: the header is appended and becomes the
\* buffer's header layer.
ofpraw_put(raw, version, b) ==
    LET h == [raw |-> raw, version |-> version]
    IN  [b EXCEPT !.header = <<h>>, !.front = <<h>>]

\* ofpraw_pull: the header is recognised, taken off the data and kept as the
\* header layer; a buffer without one is too short to be a message.
ofpraw_pull(b) ==
    IF b.front = <<>>
    THEN [error |-> "OFPBRC_BAD_LEN", msg |-> b]
    ELSE [error |-> "0", msg |-> [b EXCEPT !.header = b.front, !.front = <<>>]]

\* The buffer a receiver builds over the bytes of a message: the same bytes,
\* layer pointers null.
AsReceived(b) == [header |-> <<>>, front |-> b.front, data |-> b.data]

(***************************************************************************)
(* Ports (ofp-port.c): the 16-bit OpenFlow 1.0 numbering and the 32-bit    *)
(* numbering of 1.1 and later, in which the reserved ports 0xff00..0xffff  *)
(* become 0xffffff00..0xffffffff.                                          *)
(***************************************************************************)
OFPP_MAX == 65280
OFPP_NONE == 65535
OFPG_ANY == UINT32_MAX_BE

ofputil_port_to_ofp11(port) ==
    IF port < OFPP_MAX THEN <<0, 0>> \o Htons(port)
    ELSE <<255, 255>> \o Htons(port)

ofputil_port_from_ofp11(b) ==
    IF b[1] = 0 /\ b[2] = 0 /\ Ntohs(b, 2) < OFPP_MAX
    THEN [error |-> "0", port |-> Ntohs(b, 2)]
    ELSE IF b[1] = 255 /\ b[2] = 255 /\ b[3] = 255
    THEN [error |-> "0", port |-> Ntohs(b, 2)]
    ELSE [error |-> "OFPBAC_BAD_OUT_PORT", port |-> OFPP_NONE]

(***************************************************************************)
(* 4.4 Flow-monitor requests.                                              *)
(***************************************************************************)
OFPFMC_ADD == 0
OFPFMC_MODIFY == 1
OFPFMC_DELETE == 2

\* sizeof(struct nx_flow_monitor_request), of its ONF and 1.4 counterparts.
FMR_LEN == 16

\* The flags a request must have one of, and the flags it may have.
FmrWhen == OFPFMF_ADD + OFPFMF_REMOVED + OFPFMF_MODIFY
NxFmrAllowed == NXFMF_INITIAL + NXFMF_ADD + NXFMF_DELETE + NXFMF_MODIFY
                + NXFMF_ACTIONS + NXFMF_OWN
OfpFmrAllowed == OFPFMF_INITIAL + OFPFMF_ADD + OFPFMF_REMOVED + OFPFMF_MODIFY
                 + OFPFMF_INSTRUCTIONS + OFPFMF_ONLY_OWN

\* The test of the flags without its first half.
BadFlags_anywhen(flags, allowed) == AnyBitOutside(flags, allowed)

\* !(flags & (ADD | DELETE | MODIFY)) || flags & ~allowed; the three bits
\* have the same values in the three dialects.
BadFlags(flags, allowed) ==
    ~AnyBit(flags, FmrWhen) \/ AnyBitOutside(flags, allowed)

\* The fixed part of a request in each of the three wire variants.
\* A vendor-dialect record whose table id is left as the zero it was
\* allocated with.
NxFmrBytes_notable(r, match_len) ==
    r.id \o Htons(ofp_to_nx_flow_monitor_flags(r.flags))
         \o Htons(r.out_port) \o Htons(match_len)
         \o <<0>> \o Zeros(5)

NxFmrBytes(r, match_len) ==
    r.id \o Htons(ofp_to_nx_flow_monitor_flags(r.flags))
         \o Htons(r.out_port) \o Htons(match_len)
         \o <<r.table_id % 256>> \o Zeros(5)

OnfFmrBytes(r, match_len) ==
    r.id \o Htons(ofp_to_nx_flow_monitor_flags(r.flags)) \o Htons(match_len)
         \o ofputil_port_to_ofp11(r.out_port)
         \o <<r.table_id % 256>> \o Zeros(3)

Ofp14FmrBytes(r) ==
    r.id \o ofputil_port_to_ofp11(r.out_port) \o r.out_group
         \o Htons(r.flags) \o <<r.table_id % 256, OFPFMC_ADD>>

\* The body of ofputil_append_flow_monitor_request for a buffer it acts on:
\* the header if the buffer is empty, then the record and its match.
AppendRequestRecord(r, b, version) ==
    CASE version \in {OFP10_VERSION, OFP11_VERSION, OFP12_VERSION} ->
         LET b1 == IF BufSize(b) = 0
                   THEN ofpraw_put("NXST_FLOW_MONITOR_REQUEST", version, b)
                   ELSE b
             m == nx_put_match(r.match)
         IN  [b1 EXCEPT !.data = @ \o NxFmrBytes(r, m.match_len) \o m.bytes]
      [] version = OFP13_VERSION ->
         LET b1 == IF BufSize(b) = 0
                   THEN ofpraw_put("ONFST13_FLOW_MONITOR_REQUEST", version, b)
                   ELSE b
             m == oxm_put_match(r.match)
         IN  [b1 EXCEPT !.data = @ \o OnfFmrBytes(r, m.match_len) \o m.bytes]
      [] version \in {OFP14_VERSION, OFP15_VERSION} ->
         LET b1 == IF BufSize(b) = 0
                   THEN ofpraw_put("OFPST14_FLOW_MONITOR_REQUEST", version, b)
                   ELSE b
             m == oxm_put_match(r.match)
         IN  [b1 EXCEPT !.data = @ \o Ofp14FmrBytes(r) \o m.bytes]

\* ofputil_append_flow_monitor_request: the whole body is under
\* "if (!msg->size)".
ofputil_append_flow_monitor_request(r, b, p) ==
    IF BufSize(b) = 0
    THEN AppendRequestRecord(r, b, ofputil_protocol_to_ofp_version(p))
    ELSE b

\* What a decode call hands back: the value returned, the cursor and the
\* caller's struct as the call leaves them.
Returned(ret, m, r) == [ret |-> ret, msg |-> m, rq |-> r]

\* The three cases of the switch of ofputil_decode_flow_monitor_request, on a
\* cursor m that holds bytes, after the fixed part d was pulled.
DecodeNxRequest(r, m, d) ==
    LET flags == Ntohs(d, 4)
        r1 == [r EXCEPT !.id = Slice(d, 1, 4),
                        !.command = OFPFMC_ADD,
                        !.flags = nx_to_ofp_flow_monitor_flags(flags),
                        !.out_port = Ntohs(d, 6),
                        !.table_id = d[11],
                        !.out_group = OFPG_ANY]
        pm == nx_pull_match(m.data, Ntohs(d, 8))
    IN  IF BadFlags(flags, NxFmrAllowed)
        THEN Returned("OFPMOFC_BAD_FLAGS", m, r)
        ELSE IF Slice(d, 12, 16) # Zeros(5)
        THEN Returned("NXBRC_MUST_BE_ZERO", m, r)
        ELSE Returned(pm.error, [m EXCEPT !.data = pm.rest],
                      [r1 EXCEPT !.match = pm.match])

DecodeOnfRequest(r, m, d) ==
    LET flags == Ntohs(d, 4)
        port == ofputil_port_from_ofp11(Slice(d, 9, 12))
        r1 == [r EXCEPT !.id = Slice(d, 1, 4),
                        !.command = OFPFMC_ADD,
                        !.flags = nx_to_ofp_flow_monitor_flags(flags),
                        !.out_port = port.port]
        r2 == [r1 EXCEPT !.table_id = d[13], !.out_group = OFPG_ANY]
        pm == ofputil_pull_ofp11_match(m.data)
    IN  IF BadFlags(flags, NxFmrAllowed)
        THEN Returned("OFPMOFC_BAD_FLAGS", m, r)
        ELSE IF Slice(d, 14, 16) # Zeros(3)
        THEN Returned("NXBRC_MUST_BE_ZERO", m, r)
        ELSE IF port.error # "0"
        THEN Returned(port.error, m, r1)
        ELSE Returned(pm.error, [m EXCEPT !.data = pm.rest],
                      [r2 EXCEPT !.match = pm.match])

DecodeOfp14Request(r, m, d) ==
    LET flags == Ntohs(d, 12)
        command == d[16]
        port == ofputil_port_from_ofp11(Slice(d, 5, 8))
        r1 == [r EXCEPT !.id = Slice(d, 1, 4), !.command = command]
        r2 == [r1 EXCEPT !.flags = flags, !.out_port = port.port]
        r3 == [r2 EXCEPT !.out_group = Slice(d, 9, 12), !.table_id = d[15]]
        pm == ofputil_pull_ofp11_match(m.data)
    IN  IF command = OFPFMC_DELETE
        THEN Returned(pm.error, [m EXCEPT !.data = pm.rest],
                      [r1 EXCEPT !.match = pm.match])
        ELSE IF BadFlags(flags, OfpFmrAllowed)
        THEN Returned("OFPMOFC_BAD_FLAGS", m, r1)
        ELSE IF port.error # "0"
        THEN Returned(port.error, m, r2)
        ELSE Returned(pm.error, [m EXCEPT !.data = pm.rest],
                      [r3 EXCEPT !.match = pm.match])

\* ofpbuf_try_pull(msg, n), for a cursor that holds at least n bytes.
PullFixed(m, n) == [m EXCEPT !.data = Drop(@, n)]

\* ofputil_decode_flow_monitor_request
ofputil_decode_flow_monitor_request(r, m0) ==
    LET pulled == IF m0.header # <<>> THEN [error |-> "0", msg |-> m0]
                  ELSE ofpraw_pull(m0)
        m == pulled.msg
        raw == m.header[1].raw
        d == Slice(m.data, 1, FMR_LEN)
        m1 == PullFixed(m, FMR_LEN)
    IN  IF pulled.error # "0" THEN Returned(pulled.error, m, r)
        ELSE IF BufSize(m) = 0 THEN Returned("EOF", m, r)
        ELSE IF Len(m.data) < FMR_LEN THEN Returned("OFPBRC_BAD_LEN", m, r)
        ELSE CASE raw = "NXST_FLOW_MONITOR_REQUEST" -> DecodeNxRequest(r, m1, d)
               [] raw = "ONFST13_FLOW_MONITOR_REQUEST" ->
                  DecodeOnfRequest(r, m1, d)
               [] raw = "OFPST14_FLOW_MONITOR_REQUEST" ->
                  DecodeOfp14Request(r, m1, d)

(***************************************************************************)
(* 4.2 The event-kind translators.                                         *)
(***************************************************************************)
NXFME_ADDED == 0
NXFME_DELETED == 1
NXFME_MODIFIED == 2
NXFME_ABBREV == 3

OFPFME_INITIAL == 0
OFPFME_ADDED == 1
OFPFME_REMOVED == 2
OFPFME_MODIFIED == 3
OFPFME_ABBREV == 4
OFPFME_PAUSED == 5
OFPFME_RESUMED == 6

\* What a translator "returns" when it runs into OVS_NOT_REACHED(): the
\* process aborts.
NOT_REACHED == -1

nx_to_ofp_flow_update_event(event) ==
    CASE event = NXFME_ADDED -> OFPFME_ADDED
      [] event = NXFME_DELETED -> OFPFME_REMOVED
      [] event = NXFME_MODIFIED -> OFPFME_MODIFIED
      [] event = NXFME_ABBREV -> OFPFME_ABBREV
      [] OTHER -> NOT_REACHED

\* The translator without the OFPFME_INITIAL label of line 407.
ofp_to_nx_flow_update_event_noinitial(event) ==
    CASE event = OFPFME_ADDED -> NXFME_ADDED
      [] event = OFPFME_REMOVED -> NXFME_DELETED
      [] event = OFPFME_MODIFIED -> NXFME_MODIFIED
      [] event = OFPFME_ABBREV -> NXFME_ABBREV
      [] OTHER -> NOT_REACHED

ofp_to_nx_flow_update_event(event) ==
    CASE event \in {OFPFME_INITIAL, OFPFME_ADDED} -> NXFME_ADDED
      [] event = OFPFME_REMOVED -> NXFME_DELETED
      [] event = OFPFME_MODIFIED -> NXFME_MODIFIED
      [] event = OFPFME_ABBREV -> NXFME_ABBREV
      [] OTHER -> NOT_REACHED

(***************************************************************************)
(* The action codec (ofp-actions.c), at its interface.  The abstract       *)
(* actions are output actions, each named by its port and 16 bytes long in *)
(* the scratch buffer.  On the wire an OpenFlow 1.0 action takes 8 bytes,  *)
(* a later one 16, and an instruction list wraps the actions in one        *)
(* Apply-Actions instruction.                                              *)
(***************************************************************************)
OFPACT_OUTPUT_SIZE == 16

ActionBytes(a, version) ==
    IF version = OFP10_VERSION THEN <<0, 0, 0, 8, 0, a, 0, 0>>
    ELSE <<0, 0, 0, 16, 0, 0, 0, a>> \o Zeros(8)

RECURSIVE ofpacts_put_openflow_actions(_, _)
ofpacts_put_openflow_actions(acts, version) ==
    IF acts = <<>> THEN <<>>
    ELSE ActionBytes(Head(acts), version)
         \o ofpacts_put_openflow_actions(Tail(acts), version)

ofpacts_put_openflow_instructions(acts, version) ==
    IF acts = <<>> THEN <<>>
    ELSE LET a == ofpacts_put_openflow_actions(acts, version)
         IN  <<0, 4>> \o Htons(8 + Len(a)) \o Zeros(4) \o a

\* ofpacts_decode on the bytes p.
RECURSIVE ActionsParse(_, _)
ActionsParse(p, version) ==
    LET n == IF version = OFP10_VERSION THEN 8 ELSE 16
    IN  IF p = <<>> THEN [error |-> "0", acts |-> <<>>]
        ELSE IF Len(p) < n \/ Ntohs(p, 2) # n
        THEN [error |-> "OFPBAC_BAD_LEN", acts |-> <<>>]
        ELSE IF Ntohs(p, 0) # 0
        THEN [error |-> "OFPBAC_BAD_TYPE", acts |-> <<>>]
        ELSE LET rest == ActionsParse(Drop(p, n), version)
                 port == IF version = OFP10_VERSION THEN p[6] ELSE p[8]
             IN  [error |-> rest.error,
                  acts |-> IF rest.error = "0" THEN <<port>> \o rest.acts
                           ELSE <<>>]

InstructionsParse(p, version) ==
    IF p = <<>> THEN [error |-> "0", acts |-> <<>>]
    ELSE IF Ntohs(p, 0) # 4
    THEN [error |-> "OFPBIC_UNKNOWN_INST", acts |-> <<>>]
    ELSE IF Ntohs(p, 2) # Len(p) \/ Len(p) < 16
    THEN [error |-> "OFPBIC_BAD_LEN", acts |-> <<>>]
    ELSE ActionsParse(Drop(p, 8), version)

\* ofpacts_pull_openflow_actions / _instructions (instr says which) with the
\* length len, which the callers compute in an unsigned int: a negative
\* difference stands for the wrapped value, which is above 2^32 - 2^17 and
\* so above the size of any buffer.  Gives the error, what is left of the
\* bytes, and the actions stored in the scratch buffer (none on an error).
PullActions(b, len, version, instr) ==
    IF len < 0 \/ len % 8 # 0 \/ len > Len(b)
    THEN [error |-> "OFPBRC_BAD_LEN", rest |-> b, acts |-> <<>>, len |-> len]
    ELSE LET r == IF instr THEN InstructionsParse(Slice(b, 1, len), version)
                  ELSE ActionsParse(Slice(b, 1, len), version)
         IN  [error |-> r.error, rest |-> Drop(b, len), acts |-> r.acts,
              len |-> len]

(***************************************************************************)
(* 4.5 Flow updates.                                                       *)
(***************************************************************************)
\* sizeof the update header, the abbreviated update, the pause marker and
\* the fixed part of a full update (the same in the two wire families).
FU_HEADER_LEN == 4
FU_ABBREV_LEN == 8
FU_PAUSED_LEN == 8
FU_FULL_LEN == 24

FullEvents == {OFPFME_ADDED, OFPFME_REMOVED, OFPFME_MODIFIED}

\* The scratch buffer: the bytes it holds (mem) and how many of them are
\* live (size, in actions).  ofpbuf_clear empties it without erasing it.
ofpbuf_clear(a) == [a EXCEPT !.size = 0]
ScratchPut(a, acts) ==
    [mem |-> acts \o Drop(a.mem, Len(acts)), size |-> Len(acts)]

\* What a decode call hands back: the value returned, the cursor, the
\* caller's struct and the scratch buffer as the call leaves them.
\* len is the length the call handed to the action puller, if it got there.
Handed(ret, m, u, a) ==
    [ret |-> ret, msg |-> m, update |-> u, ofpacts |-> a, len |-> <<>>]

\* What a call hands back after its call of the action puller with the
\* length len.
AfterPull(len, h) == [h EXCEPT !.len = <<len>>]

\* The end of a successful decode of a full update.
WithActions(u, a) ==
    [u EXCEPT !.ofpacts = "scratch", !.ofpacts_len = a.size * OFPACT_OUTPUT_SIZE]

\* The vendor / industry extension family, on a cursor m that holds bytes.
DecodeNxUpdate(u, m, a, raw, version) ==
    LET d == m.data
        event == nx_to_ofp_flow_update_event(Ntohs(d, 2))
        length == Ntohs(d, 0)
        u1 == [u EXCEPT !.event = event]
        match_len == Ntohs(d, 12)
        m1 == [m EXCEPT !.data = Drop(d, FU_FULL_LEN)]
        u2 == [u1 EXCEPT !.reason = Ntohs(d, 4),
                         !.idle_timeout = Ntohs(d, 8),
                         !.hard_timeout = Ntohs(d, 10),
                         !.table_id = d[15],
                         !.cookie = Slice(d, 17, 24),
                         !.priority = Ntohs(d, 6)]
    IN  IF Len(d) < FU_HEADER_LEN THEN Handed("OFPBRC_BAD_LEN", m, u, a)
        ELSE IF event = NOT_REACHED THEN Handed("ABORT", m, u, a)
        ELSE IF length > Len(d) \/ length % 8 # 0
        THEN Handed("OFPBRC_BAD_LEN", m, u1, a)
        ELSE IF event = OFPFME_ABBREV
        THEN IF length # FU_ABBREV_LEN
             THEN Handed("OFPBRC_BAD_LEN", m, u1, a)
             ELSE Handed("0", [m EXCEPT !.data = Drop(d, FU_ABBREV_LEN)],
                         [u1 EXCEPT !.xid = Slice(d, 5, 8)], a)
        ELSE IF event \in FullEvents
        THEN IF length < FU_FULL_LEN
             THEN Handed("OFPBRC_BAD_LEN", m, u1, a)
             ELSE IF FU_FULL_LEN + match_len > length
             THEN Handed("OFPBRC_BAD_LEN", m1, u1, a)
             ELSE IF raw = "ONFST13_FLOW_MONITOR_REPLY"
             THEN LET pm == ofputil_pull_ofp11_match(m1.data)
                      pa == PullActions(pm.rest,
                                        length - FU_FULL_LEN - pm.padded,
                                        version, TRUE)
                      u3 == [u2 EXCEPT !.match = pm.match]
                      a1 == ScratchPut(a, pa.acts)
                  IN  IF pm.error # "0"
                      THEN Handed(pm.error, [m1 EXCEPT !.data = pm.rest],
                                  u3, a)
                      ELSE IF pa.error # "0"
                      THEN AfterPull(pa.len,
                               Handed(pa.error, [m1 EXCEPT !.data = pa.rest],
                                      u3, a))
                      ELSE AfterPull(pa.len,
                               Handed("0", [m1 EXCEPT !.data = pa.rest],
                                      WithActions(u3, a1), a1))
             ELSE LET pm == nx_pull_match(m1.data, match_len)
                      pa == PullActions(pm.rest,
                                        length - FU_FULL_LEN
                                               - RoundUp8(match_len),
                                        version, FALSE)
                      u3 == [u2 EXCEPT !.match = pm.match]
                      a1 == ScratchPut(a, pa.acts)
                  IN  IF pm.error # "0"
                      THEN Handed(pm.error, [m1 EXCEPT !.data = pm.rest],
                                  u3, a)
                      ELSE IF pa.error # "0"
                      THEN AfterPull(pa.len,
                               Handed(pa.error, [m1 EXCEPT !.data = pa.rest],
                                      u3, a))
                      ELSE AfterPull(pa.len,
                               Handed("0", [m1 EXCEPT !.data = pa.rest],
                                      WithActions(u3, a1), a1))
        ELSE Handed("NXBRC_FM_BAD_EVENT", m, u1, a)

\* The current-standard family, on a cursor m that holds bytes.
DecodeOfp14Update(u, m, a, version) ==
    LET d == m.data
        event == Ntohs(d, 2)
        length == Ntohs(d, 0)
        u1 == [u EXCEPT !.event = event]
        m1 == [m EXCEPT !.data = Drop(d, FU_FULL_LEN)]
        u2 == [u1 EXCEPT !.reason = d[6],
                         !.idle_timeout = Ntohs(d, 6),
                         !.hard_timeout = Ntohs(d, 8),
                         !.table_id = d[5],
                         !.cookie = Slice(d, 17, 24),
                         !.priority = Ntohs(d, 10)]
    IN  IF Len(d) < FU_HEADER_LEN THEN Handed("OFPBRC_BAD_LEN", m, u, a)
        ELSE IF length > Len(d) \/ length % 8 # 0
        THEN Handed("OFPBRC_BAD_LEN", m, u1, a)
        ELSE IF event = OFPFME_ABBREV
        THEN IF length # FU_ABBREV_LEN
             THEN Handed("OFPBRC_BAD_LEN", m, u1, a)
             ELSE Handed("0", [m EXCEPT !.data = Drop(d, FU_ABBREV_LEN)],
                         [u1 EXCEPT !.xid = Slice(d, 5, 8)], a)
        ELSE IF event \in {OFPFME_PAUSED, OFPFME_RESUMED}
        THEN IF length # FU_PAUSED_LEN
             THEN Handed("OFPBRC_BAD_LEN", m, u1, a)
             ELSE Handed("0", [m EXCEPT !.data = Drop(d, FU_PAUSED_LEN)],
                         u1, a)
        ELSE IF event \in FullEvents \cup {OFPFME_INITIAL}
        THEN IF length < FU_FULL_LEN
             THEN Handed("OFPBRC_BAD_LEN", m, u1, a)
             ELSE LET pm == ofputil_pull_ofp11_match(m1.data)
                      pa == PullActions(pm.rest,
                                        length - FU_FULL_LEN - pm.padded,
                                        version, TRUE)
                      u3 == [u2 EXCEPT !.match = pm.match]
                      a1 == ScratchPut(a, pa.acts)
                  IN  IF pm.error # "0"
                      THEN Handed(pm.error, [m1 EXCEPT !.data = pm.rest],
                                  u3, a)
                      ELSE IF pa.error # "0"
                      THEN AfterPull(pa.len,
                               Handed(pa.error, [m1 EXCEPT !.data = pa.rest],
                                      u3, a))
                      ELSE AfterPull(pa.len,
                               Handed("0", [m1 EXCEPT !.data = pa.rest],
                                      WithActions(u3, a1), a1))
        ELSE Handed("NXBRC_FM_BAD_EVENT", m, u1, a)

\* ofputil_decode_flow_update
ofputil_decode_flow_update(u, m0, a0) ==
    LET m == IF m0.header = <<>> THEN ofpraw_pull(m0).msg ELSE m0
        raw == m.header[1].raw
        version == m.header[1].version
        a == ofpbuf_clear(a0)
    IN  IF BufSize(m) = 0 THEN Handed("EOF", m, u, a)
        ELSE IF raw \in {"ONFST13_FLOW_MONITOR_REPLY",
                         "NXST_FLOW_MONITOR_REPLY"}
        THEN DecodeNxUpdate(u, m, a, raw, version)
        ELSE DecodeOfp14Update(u, m, a, version)

\* ofputil_start_flow_update: one reply message for the protocol's family.
ofputil_start_flow_update(p) ==
    LET version == ofputil_protocol_to_ofp_version(p)
        raw == CASE version \in {OFP10_VERSION, OFP11_VERSION, OFP12_VERSION}
                    -> "NXST_FLOW_MONITOR_REPLY"
                 [] version = OFP13_VERSION -> "ONFST13_FLOW_MONITOR_REPLY"
                 [] version \in {OFP14_VERSION, OFP15_VERSION}
                    -> "OFPST14_FLOW_MONITOR_REPLY"
    IN  <<ofpraw_put(raw, version, EmptyBuf)>>

\* ofpmp_postappend (ofp-msgs.c): a record that takes the last message past
\* 64 kB is moved to a new message with the same header.
ofpmp_postappend(rs, start_ofs) ==
    LET last == rs[Len(rs)]
        keep == start_ofs - HeaderLen(last.front[1].raw)
    IN  IF BufSize(last) > UINT16_MAX
        THEN [rs EXCEPT ![Len(rs)] = [last EXCEPT !.data = Slice(@, 1, keep)]]
             \o <<[last EXCEPT !.data = Drop(@, keep)]>>
        ELSE rs

\* The records ofputil_append_flow_update lays out; length and event are
\* written last, over the first four bytes.
NxAbbrevBytes(u, event) ==
    Htons(FU_ABBREV_LEN) \o Htons(event) \o u.xid

NxFullBytes(u, event, m, acts) ==
    Htons(FU_FULL_LEN + Len(m.bytes) + Len(acts)) \o Htons(event)
    \o Htons(u.reason) \o Htons(u.priority) \o Htons(u.idle_timeout)
    \o Htons(u.hard_timeout) \o Htons(m.match_len)
    \o <<u.table_id % 256, 0>> \o u.cookie \o m.bytes \o acts

Ofp14FullBytes(u, m, acts) ==
    Htons(FU_FULL_LEN + Len(m.bytes) + Len(acts)) \o Htons(u.event)
    \o <<u.table_id % 256, u.reason % 256>> \o Htons(u.idle_timeout)
    \o Htons(u.hard_timeout) \o Htons(u.priority) \o Zeros(4)
    \o u.cookie \o m.bytes \o acts

\* An encoder that derives the record length from the match alone.
FullRecordFor_nolen(u, version) ==
    LET m == IF version = OFP13_VERSION THEN oxm_put_match(u.match)
             ELSE nx_put_match(u.match)
        acts == IF version = OFP13_VERSION
                THEN ofpacts_put_openflow_instructions(u.ofpacts, version)
                ELSE ofpacts_put_openflow_actions(u.ofpacts, version)
    IN  IF version \in {OFP14_VERSION, OFP15_VERSION}
        THEN Htons(FU_FULL_LEN + Len(oxm_put_match(u.match).bytes))
             \o Drop(Ofp14FullBytes(u, oxm_put_match(u.match),
                       ofpacts_put_openflow_instructions(u.ofpacts, version)),
                     2)
        ELSE Htons(FU_FULL_LEN + Len(m.bytes))
             \o Drop(NxFullBytes(u, ofp_to_nx_flow_update_event(u.event),
                                 m, acts), 2)

\* The full record of the update u for a version.
FullRecordFor(u, version) ==
    LET m == IF version = OFP13_VERSION THEN oxm_put_match(u.match)
             ELSE nx_put_match(u.match)
        acts == IF version = OFP13_VERSION
                THEN ofpacts_put_openflow_instructions(u.ofpacts, version)
                ELSE ofpacts_put_openflow_actions(u.ofpacts, version)
    IN  IF version \in {OFP14_VERSION, OFP15_VERSION}
        THEN Ofp14FullBytes(u, oxm_put_match(u.match),
                 ofpacts_put_openflow_instructions(u.ofpacts, version))
        ELSE NxFullBytes(u, ofp_to_nx_flow_update_event(u.event), m, acts)

\* An append that leaves the caller-supplied table in the caller's update.
ofputil_append_flow_update_norestore(u, rs, tun_table) ==
    LET version == rs[1].front[1].version
        last == rs[Len(rs)]
        nx == version \in {OFP10_VERSION, OFP11_VERSION, OFP12_VERSION,
                           OFP13_VERSION}
        rec == IF u.event = OFPFME_ABBREV
               THEN NxAbbrevBytes(u, IF nx
                                     THEN ofp_to_nx_flow_update_event(u.event)
                                     ELSE u.event)
               ELSE FullRecordFor(u, version)
    IN  [aborted |-> nx /\ ofp_to_nx_flow_update_event(u.event) = NOT_REACHED,
         replies |-> IF nx /\ ofp_to_nx_flow_update_event(u.event) = NOT_REACHED
                     THEN rs
                     ELSE ofpmp_postappend(
                              [rs EXCEPT ![Len(rs)].data = @ \o rec],
                              BufSize(last)),
         update |-> [u EXCEPT !.tab = tun_table]]

\* ofputil_append_flow_update(update, replies, tun_table): the replies and
\* the caller's update as the call leaves them; aborted says that the call
\* ran into OVS_NOT_REACHED() instead of returning.
ofputil_append_flow_update(u, rs, tun_table) ==
    LET version == rs[1].front[1].version
        orig_tun_table == u.tab
        last == rs[Len(rs)]
        start_ofs == BufSize(last)
        nx == version \in {OFP10_VERSION, OFP11_VERSION, OFP12_VERSION,
                           OFP13_VERSION}
        rec == IF u.event = OFPFME_ABBREV
               THEN NxAbbrevBytes(u, IF nx
                                     THEN ofp_to_nx_flow_update_event(u.event)
                                     ELSE u.event)
               ELSE FullRecordFor(u, version)
    IN  IF nx /\ ofp_to_nx_flow_update_event(u.event) = NOT_REACHED
        THEN [aborted |-> TRUE, replies |-> rs,
              update |-> [u EXCEPT !.tab = tun_table]]
        ELSE [aborted |-> FALSE,
              replies |-> ofpmp_postappend(
                              [rs EXCEPT ![Len(rs)].data = @ \o rec],
                              start_ofs),
              update |-> [[u EXCEPT !.tab = tun_table]
                             EXCEPT !.tab = orig_tun_table]]

(***************************************************************************)
(* Flow-monitor cancel.  A uint32_t is its two 16-bit halves, so that the  *)
(* whole 32-bit range is covered.                                          *)
(***************************************************************************)
U32(hi, lo) == [hi |-> hi, lo |-> lo]

Htonl_swapped(x) == <<x.lo % 256, x.lo \div 256, x.hi % 256, x.hi \div 256>>

\* htonl: the four bytes, most significant first.
Htonl(x) == <<x.hi \div 256, x.hi % 256, x.lo \div 256, x.lo % 256>>

\* ntohl
Ntohl(b) == [hi |-> b[1] * 256 + b[2], lo |-> b[3] * 256 + b[4]]

\* sizeof(struct nx_flow_monitor_cancel)
FM_CANCEL_LEN == 4

CancelRaws == {"NXT_FLOW_MONITOR_CANCEL", "ONFT13_FLOW_MONITOR_CANCEL"}

\* ofpraw_decode: the raw type of a whole message, or the recogniser's
\* error for a type it does not know or a body of the wrong length.
ofpraw_decode(m) ==
    LET raw == m.front[1].raw
    IN  CASE raw = "UNKNOWN" -> [error |-> "OFPBRC_BAD_TYPE", raw |-> raw]
          [] raw \in CancelRaws /\ Len(m.data) # FM_CANCEL_LEN
               -> [error |-> "OFPBRC_BAD_LEN", raw |-> raw]
          [] OTHER -> [error |-> "0", raw |-> raw]

\* ofputil_encode_flow_monitor_cancel
ofputil_encode_flow_monitor_cancel(id, p) ==
    LET version == ofputil_protocol_to_ofp_version(p)
    IN  IF version \in {OFP10_VERSION, OFP11_VERSION, OFP12_VERSION,
                        OFP13_VERSION}
        THEN LET raw == IF version = OFP13_VERSION
                        THEN "ONFT13_FLOW_MONITOR_CANCEL"
                        ELSE "NXT_FLOW_MONITOR_CANCEL"
                 m == ofpraw_put(raw, version, EmptyBuf)
             IN  [m EXCEPT !.data = Htonl(id)]
        ELSE LET m == ofpraw_put("OFPST14_FLOW_MONITOR_REQUEST", version,
                                 EmptyBuf)
             IN  [m EXCEPT !.data = Htonl(id) \o Zeros(FMR_LEN - 5)
                                        \o <<OFPFMC_DELETE>>]

\* ofputil_decode_flow_monitor_cancel.  The function returns a uint32_t:
\* the id, or the recogniser's error code in the id's place; any other raw
\* type runs into OVS_NOT_REACHED().
ofputil_decode_flow_monitor_cancel(oh) ==
    LET d == ofpraw_decode(oh)
    IN  CASE d.error # "0" -> [aborted |-> FALSE, value |-> d.error]
          [] d.raw \in CancelRaws
               -> [aborted |-> FALSE, value |-> Ntohl(Slice(oh.data, 1, 4))]
          [] OTHER -> [aborted |-> TRUE, value |-> "none"]

(***************************************************************************)
(* Request forward.  The heap is the sequence of the allocations made so   *)
(* far; a pointer is an index into it and 0 is NULL.  Freeing a block that *)
(* is not allocated is recorded in the block.                              *)
(***************************************************************************)
NULL == 0

Malloc(h, kind, owner, val) ==
    Append(h, [kind |-> kind, owner |-> owner, state |-> "allocated",
               val |-> val])

Free_nothing(h, p) == h

\* free(p), ofpbuf_uninit, ofpbuf_delete
Free(h, p) ==
    IF p = NULL THEN h
    ELSE [h EXCEPT ![p].state = IF @ = "allocated" THEN "freed"
                                ELSE "freed_twice"]

\* sizeof(struct ofp_header): version, type, length, xid
OFP_HEADER_LEN == 8
OFPT_HELLO == 0
OFPT_GROUP_MOD == 15
OFPT_METER_MOD == 29

OfpHeader(version, type, length, xid) ==
    <<version, type>> \o Htons(length) \o xid

\* The transaction id a sub-encoder gives the message it allocates.
SubXid == <<0, 0, 0, 1>>

\* The group-mod and meter-mod codecs, at their interface: a group mod is
\* its command, type and group id, a meter mod its command, flags, meter id
\* and bands; each encoder returns a whole message of the given version.
GROUP_MOD_LEN == 8
METER_MOD_LEN == 8
METER_BAND_LEN == 16

ofputil_encode_group_mod(version, gm, new_buckets, group_existed) ==
    OfpHeader(version, OFPT_GROUP_MOD, OFP_HEADER_LEN + GROUP_MOD_LEN, SubXid)
        \o Htons(gm.command) \o <<gm.type, 0>> \o gm.group_id

BandBytes(band) == <<0, band.type>> \o Htons(METER_BAND_LEN)
                       \o Be32(band.rate) \o Zeros(8)

RECURSIVE BandsBytes(_)
BandsBytes(bands) ==
    IF bands = <<>> THEN <<>>
    ELSE BandBytes(Head(bands)) \o BandsBytes(Tail(bands))

ofputil_encode_meter_mod(version, mm) ==
    OfpHeader(version, OFPT_METER_MOD,
              OFP_HEADER_LEN + METER_MOD_LEN
                  + METER_BAND_LEN * Len(mm.bands), SubXid)
        \o Htons(mm.command) \o Htons(mm.flags) \o mm.meter_id
        \o BandsBytes(mm.bands)

\* ofptype_decode: the type of a whole message, or an error for a type it
\* does not know or a length the type does not allow.
ofptype_decode(m) ==
    LET type == m[2]
        len == Ntohs(m, 2)
    IN  CASE type = OFPT_HELLO -> [error |-> "0", type |-> "OFPTYPE_HELLO"]
          [] type = OFPT_GROUP_MOD ->
               IF len < OFP_HEADER_LEN + GROUP_MOD_LEN \/ len % 8 # 0
               THEN [error |-> "OFPBRC_BAD_LEN", type |-> "none"]
               ELSE [error |-> "0", type |-> "OFPTYPE_GROUP_MOD"]
          [] type = OFPT_METER_MOD ->
               IF len < OFP_HEADER_LEN + METER_MOD_LEN \/ len % 8 # 0
               THEN [error |-> "OFPBRC_BAD_LEN", type |-> "none"]
               ELSE [error |-> "0", type |-> "OFPTYPE_METER_MOD"]
          [] OTHER -> [error |-> "OFPBRC_BAD_TYPE", type |-> "none"]

ofputil_decode_group_mod(m) ==
    LET command == Ntohs(m, OFP_HEADER_LEN)
        gm == [command |-> command, type |-> m[OFP_HEADER_LEN + 3],
               group_id |-> Slice(m, OFP_HEADER_LEN + 5, OFP_HEADER_LEN + 8)]
    IN  IF command > 2
        THEN [error |-> "OFPGMFC_BAD_COMMAND", gm |-> gm]
        ELSE [error |-> "0", gm |-> gm]

RECURSIVE BandsParse(_)
BandsParse(b) ==
    IF Len(b) < METER_BAND_LEN THEN <<>>
    ELSE <<[type |-> b[2], rate |-> b[8]]>>
             \o BandsParse(Drop(b, METER_BAND_LEN))

ofputil_decode_meter_mod(m) ==
    LET command == Ntohs(m, OFP_HEADER_LEN)
        rest == Drop(m, OFP_HEADER_LEN + METER_MOD_LEN)
        bands == BandsParse(rest)
        mm == [command |-> command, flags |-> Ntohs(m, OFP_HEADER_LEN + 2),
               meter_id |-> Slice(m, OFP_HEADER_LEN + 5, OFP_HEADER_LEN + 8),
               bands |-> bands]
    IN  CASE command > 2 -> [error |-> "OFPMMFC_BAD_COMMAND", mm |-> mm]
          [] Len(rest) % METER_BAND_LEN # 0
               -> [error |-> "OFPBRC_BAD_LEN", mm |-> mm]
          [] \E i \in 1..Len(bands) : bands[i].type \notin {1, 2}
               -> [error |-> "OFPMMFC_BAD_BAND", mm |-> mm]
          [] OTHER -> [error |-> "0", mm |-> mm]

RequestForwardRaws ==
    {"NXT_REQUESTFORWARD", "ONFT13_REQUESTFORWARD", "OFPT14_REQUESTFORWARD"}

\* The raw type ofputil_encode_requestforward picks for a version.
RawForVersion(ofp_version) ==
    IF ofp_version < OFP13_VERSION THEN "NXT_REQUESTFORWARD"
    ELSE IF ofp_version = OFP13_VERSION THEN "ONFT13_REQUESTFORWARD"
    ELSE "OFPT14_REQUESTFORWARD"

InnerStamped_keepxid(inner, xid) ==
    Slice(inner, 1, 2) \o Htons(Len(inner)) \o Drop(inner, 4)

\* inner_oh->xid = rf->xid; inner_oh->length = htons(inner->size);
InnerStamped(inner, xid) ==
    Slice(inner, 1, 2) \o Htons(Len(inner)) \o xid
        \o Drop(inner, OFP_HEADER_LEN)

\* ofputil_encode_requestforward: the outer message and the heap after the
\* call (the inner buffer is allocated and deleted, the outer one returned).
ofputil_encode_requestforward(rf, p, h) ==
    LET ofp_version == ofputil_protocol_to_ofp_version(p)
        gm == rf.reason = "OFPRFR_GROUP_MOD"
        inner0 == IF gm
                  THEN ofputil_encode_group_mod(ofp_version,
                           h[rf.group_mod].val, rf.new_buckets,
                           rf.group_existed)
                  ELSE ofputil_encode_meter_mod(ofp_version,
                                                h[rf.meter_mod].val)
        h1 == Malloc(h, "inner_msg", "encode", <<>>)
        inner == InnerStamped(inner0, rf.xid)
        h2 == Malloc(h1, "outer_msg", "encode", <<>>)
        outer == [ofpraw_put(RawForVersion(ofp_version), ofp_version,
                             EmptyBuf) EXCEPT !.data = inner]
    IN  IF rf.reason \notin {"OFPRFR_GROUP_MOD", "OFPRFR_METER_MOD"}
        THEN [aborted |-> TRUE, msg |-> EmptyBuf, buf |-> NULL, heap |-> h]
        ELSE [aborted |-> FALSE, msg |-> outer, buf |-> Len(h2),
              heap |-> Free(h2, Len(h1))]

RfReturn(ret, rf, h) == [ret |-> ret, rf |-> rf, heap |-> h]

DecodeInnerGroupMod_early(inner, rf, h) ==
    LET d == ofputil_decode_group_mod(inner)
        h1 == Malloc(h, "group_mod", "decode", d.gm)
        rf1 == [rf EXCEPT !.reason = "OFPRFR_GROUP_MOD",
                          !.group_mod = Len(h1)]
    IN  RfReturn(d.error, rf1, h1)

\* The group-mod branch of ofputil_decode_requestforward.
DecodeInnerGroupMod(inner, rf, h) ==
    LET d == ofputil_decode_group_mod(inner)
        h1 == Malloc(h, "group_mod", "decode", d.gm)
        rf1 == [rf EXCEPT !.reason = "OFPRFR_GROUP_MOD",
                          !.group_mod = Len(h1)]
    IN  IF d.error # "0"
        THEN RfReturn(d.error, rf1, Free(h1, rf1.group_mod))
        ELSE RfReturn("0", rf1, h1)

\* The meter-mod branch of ofputil_decode_requestforward.
DecodeInnerMeterMod(inner, rf, h) ==
    LET d == ofputil_decode_meter_mod(inner)
        h1 == Malloc(h, "meter_mod", "decode", d.mm)
        h2 == Malloc(h1, "bands", "decode", d.mm.bands)
        rf1 == [rf EXCEPT !.reason = "OFPRFR_METER_MOD",
                          !.meter_mod = Len(h1), !.bands = Len(h2)]
    IN  IF d.error # "0"
        THEN RfReturn(d.error, rf1,
                      Free(Free(h2, rf1.meter_mod), rf1.bands))
        ELSE RfReturn("0", rf1, h2)

VersionMismatch_never(inner, outer) == FALSE

\* inner->version != outer->version
VersionMismatch(inner, outer) == inner[1] # outer.front[1].version

\* ofputil_decode_requestforward.  An outer message that is not a request
\* forward fails ofpraw_pull_assert or the ovs_assert after it.
ofputil_decode_requestforward(outer, rf, h) ==
    LET rf0 == [rf EXCEPT !.new_buckets = NULL, !.group_existed = -1]
        pulled == ofpraw_pull(outer)
        b == pulled.msg.data
        inner_len == Ntohs(b, 2)
        inner == Slice(b, 1, inner_len)
        t == ofptype_decode(inner)
        rf1 == [rf0 EXCEPT !.xid = Slice(inner, 5, 8)]
    IN  IF \/ pulled.error # "0"
           \/ pulled.msg.header[1].raw \notin RequestForwardRaws
        THEN RfReturn("ABORT", rf0, h)
        ELSE IF Len(b) < OFP_HEADER_LEN
        THEN RfReturn("OFPBFC_MSG_BAD_LEN", rf0, h)
        ELSE IF inner_len < OFP_HEADER_LEN \/ inner_len > Len(b)
        THEN RfReturn("OFPBFC_MSG_BAD_LEN", rf0, h)
        ELSE IF VersionMismatch(inner, outer)
        THEN RfReturn("OFPBRC_BAD_VERSION", rf0, h)
        ELSE IF t.error # "0"
        THEN RfReturn(t.error, rf0, h)
        ELSE IF t.type = "OFPTYPE_GROUP_MOD"
        THEN DecodeInnerGroupMod(inner, rf1, h)
        ELSE IF t.type = "OFPTYPE_METER_MOD"
        THEN DecodeInnerMeterMod(inner, rf1, h)
        ELSE RfReturn("OFPBFC_MSG_UNSUP", rf1, h)

ofputil_destroy_requestforward_nobands(rf, h) ==
    IF rf = <<>> THEN [aborted |-> FALSE, heap |-> h]
    ELSE IF rf[1].reason = "OFPRFR_GROUP_MOD"
    THEN [aborted |-> FALSE, heap |-> Free(h, rf[1].group_mod)]
    ELSE IF rf[1].reason = "OFPRFR_METER_MOD"
    THEN [aborted |-> FALSE, heap |-> Free(h, rf[1].meter_mod)]
    ELSE [aborted |-> TRUE, heap |-> h]

\* ofputil_destroy_requestforward.  rf is the wrapper pointed to, or <<>>
\* for a null pointer.
ofputil_destroy_requestforward(rf, h) ==
    IF rf = <<>> THEN [aborted |-> FALSE, heap |-> h]
    ELSE IF rf[1].reason = "OFPRFR_GROUP_MOD"
    THEN [aborted |-> FALSE, heap |-> Free(h, rf[1].group_mod)]
    ELSE IF rf[1].reason = "OFPRFR_METER_MOD"
    THEN [aborted |-> FALSE,
          heap |-> Free(Free(h, rf[1].bands), rf[1].meter_mod)]
    ELSE [aborted |-> TRUE, heap |-> h]

(***************************************************************************)
(* parse_flow_monitor_request__: a request built from a filter expression. *)
(* The expression is the sequence of its name / value pairs, each with the *)
(* verdict of the external parser it is handed to.                         *)
(***************************************************************************)
atomic_count_inc_stuck(c) == [old |-> c, new |-> c]

\* atomic_count_inc on the static counter (an unsigned int): the value
\* before the increment is returned, in one indivisible step.
atomic_count_inc(c) ==
    [old |-> c,
     new |-> IF c.lo = UINT16_MAX
             THEN U32((c.hi + 1) % (UINT16_MAX + 1), 0)
             ELSE U32(c.hi, c.lo + 1)]

\* flags &= ~bit, for a single bit
AndNot(flags, bit) ==
    IF (flags \div bit) % 2 = 1 THEN flags - bit ELSE flags

ParseDefaultFlags ==
    OFPFMF_INITIAL + OFPFMF_ADD + OFPFMF_REMOVED + OFPFMF_MODIFY
        + OFPFMF_ONLY_OWN + OFPFMF_INSTRUCTIONS

TABLE_ANY == 255

\* Lines 720-729: the id and the defaults, before the expression is read.
ParseStart(fmr, id) ==
    [fmr EXCEPT !.id = id, !.flags = ParseDefaultFlags,
                !.out_port = OFPP_NONE, !.out_group = OFPG_ANY,
                !.table_id = TABLE_ANY, !.match = <<>>]

Negations ==
    [n \in {"!initial", "!add", "!delete", "!modify", "!actions", "!abbrev",
            "!own"} |->
        CASE n = "!initial" -> OFPFMF_INITIAL
          [] n = "!add" -> OFPFMF_ADD
          [] n = "!delete" -> OFPFMF_REMOVED
          [] n = "!modify" -> OFPFMF_MODIFY
          [] n = "!actions" -> OFPFMF_INSTRUCTIONS
          [] n = "!abbrev" -> OFPFMF_NO_ABBREV
          [] n = "!own" -> OFPFMF_ONLY_OWN]

\* One turn of the while loop on the pair kv: the request, the usable
\* protocols and the error string (empty: none) after it.
ParseKeyValue(st, kv) ==
    LET fmr == st.fmr
    IN  IF kv.name \in DOMAIN Negations
        THEN [st EXCEPT !.fmr.flags = AndNot(@, Negations[kv.name])]
        ELSE IF kv.kind = "protocol"
        THEN [st EXCEPT !.fmr.match = Append(@, kv.field)]
        ELSE IF kv.kind = "field"
        THEN IF kv.verdict = "bad_value"
             THEN [st EXCEPT !.error = "bad field value"]
             ELSE IF kv.verdict = "not_of10"
             THEN [st EXCEPT !.fmr.match = Append(@, kv.field),
                             !.usable = "not_of10",
                             !.error = "match field is not supported"]
             ELSE [st EXCEPT !.fmr.match = Append(@, kv.field)]
        ELSE IF kv.value = ""
        THEN [st EXCEPT !.error = "missing value"]
        ELSE IF kv.name = "table"
        THEN IF kv.verdict = "unknown_table"
             THEN [st EXCEPT !.error = "unknown table"]
             ELSE [st EXCEPT !.fmr.table_id = kv.number]
        ELSE IF kv.name = "out_port"
        THEN [st EXCEPT !.fmr.out_port = kv.number % (UINT16_MAX + 1)]
        ELSE IF kv.name = "out_group"
        THEN [st EXCEPT !.fmr.out_group = Be32(kv.number)]
        ELSE [st EXCEPT !.error = "unknown keyword"]

RECURSIVE ParseLoop(_, _)
ParseLoop(st, string) ==
    IF string = <<>> \/ st.error # "" THEN st
    ELSE ParseLoop(ParseKeyValue(st, Head(string)), Tail(string))

\* The rest of parse_flow_monitor_request__ once the id has been taken.
ParseRest(fmr, id, string) ==
    ParseLoop([fmr |-> ParseStart(fmr, id), usable |-> "any", error |-> ""],
              string)

(***************************************************************************)
(* The calling code.  Each specification below drives one component; the   *)
(* variables of the other components keep their idle values.               *)
(***************************************************************************)
IdleFlags == [dir |-> "none", input |-> 0, wire |-> 0, back |-> 0]

\* What the caller's structs hold before the first decode call fills them
\* in: values no message of the model carries.
StaleRequest ==
    [id |-> <<9, 9, 9, 9>>, command |-> 9, flags |-> 0, out_port |-> 4660,
     out_group |-> <<1, 2, 3, 4>>, table_id |-> 77, match |-> <<3, 3>>]
StaleUpdate ==
    [event |-> 9, reason |-> 9, idle_timeout |-> 9, hard_timeout |-> 9,
     table_id |-> 77, cookie |-> Be64(9), priority |-> 9, match |-> <<3, 3>>,
     ofpacts |-> "null", ofpacts_len |-> 0, xid |-> <<9, 9, 9, 9>>,
     tab |-> "none"]
EmptyScratch == [mem |-> <<>>, size |-> 0]

flagVars == <<flg>>
frVars == <<fr, frmsg, frdec, frerr>>
fmrVars == <<out, rq>>
fuVars == <<replies, update, ofpacts>>
curVars == <<sent, given, msg, result, calls>>
rfVars == <<heap, srf, drf, rfio>>
parseVars == <<next_id, thr, issued>>
otherVars == <<cancel, rfVars, parseVars>>

\* The idle values of the components specified further down.
IdleCancel == [src |-> "none", id |-> <<>>, msg |-> EmptyBuf, ret |-> <<>>]
\* A struct ofputil_requestforward nothing has filled in.
StaleForward ==
    [xid |-> <<9, 9, 9, 9>>, reason |-> "none", group_mod |-> NULL,
     meter_mod |-> NULL, bands |-> NULL, new_buckets |-> 99,
     group_existed |-> 7]
IdleForwardIo ==
    [rich |-> FALSE, left |-> 0, src |-> "none", msg |-> EmptyBuf,
     buf |-> NULL, ret |-> "none", before |-> <<>>]
\* ATOMIC_COUNT_INIT(0), and no thread parsing.
IdleParse ==
    /\ next_id = U32(0, 0)
    /\ thr = <<>>
    /\ issued = {}
IdleOthers ==
    /\ cancel = IdleCancel
    /\ heap = <<>> /\ srf = StaleForward /\ drf = StaleForward
    /\ rfio = IdleForwardIo
    /\ IdleParse

(***************************************************************************)
(* The flag translators, called in both orders on every 16-bit word.       *)
(***************************************************************************)
InitFlags ==
    /\ pc = "idle"
    /\ protocol = "none"
    /\ flg = IdleFlags
    /\ fr = <<>> /\ frmsg = <<>> /\ frdec = <<>> /\ frerr = "none"
    /\ sent = <<>> /\ given = <<>> /\ out = EmptyBuf /\ replies = <<>>
    /\ msg = EmptyBuf /\ rq = StaleRequest /\ update = StaleUpdate
    /\ ofpacts = EmptyScratch /\ result = "none" /\ calls = <<>>
    /\ IdleOthers

\* The canonical word f is translated to the dialect.
CallOfpToNx ==
    /\ pc = "idle"
    /\ \E f \in 0..UINT16_MAX :
          flg' = [dir |-> "canonical_to_dialect", input |-> f,
                  wire |-> ofp_to_nx_flow_monitor_flags(f), back |-> 0]
    /\ pc' = "translated"
    /\ UNCHANGED <<otherVars, protocol, frVars, fmrVars, fuVars, curVars>>

\* The dialect word g is translated to the canonical form.
CallNxToOfp ==
    /\ pc = "idle"
    /\ \E g \in 0..UINT16_MAX :
          flg' = [dir |-> "dialect_to_canonical", input |-> g,
                  wire |-> nx_to_ofp_flow_monitor_flags(g), back |-> 0]
    /\ pc' = "translated"
    /\ UNCHANGED <<otherVars, protocol, frVars, fmrVars, fuVars, curVars>>

\* The word returned is handed to the opposite translator.
TranslateBack ==
    /\ pc = "translated"
    /\ flg' = [flg EXCEPT !.back =
                  IF flg.dir = "canonical_to_dialect"
                  THEN nx_to_ofp_flow_monitor_flags(flg.wire)
                  ELSE ofp_to_nx_flow_monitor_flags(flg.wire)]
    /\ pc' = "back"
    /\ UNCHANGED <<otherVars, protocol, frVars, fmrVars, fuVars, curVars>>

NextFlags == CallOfpToNx \/ CallNxToOfp \/ TranslateBack

SpecFlags == InitFlags /\ [][NextFlags]_vars

(***************************************************************************)
(* The event translators called with every 16-bit code: the canonical     *)
(* event of an update handed to ofputil_append_flow_update (line 1237),   *)
(* the wire event read by ofputil_decode_flow_update (ntohs of a 16-bit   *)
(* field).  OVS_NOT_REACHED() aborts the process.                          *)
(***************************************************************************)
EventReturn(dir, event, ret) ==
    /\ flg' = [dir |-> dir, input |-> event, wire |-> ret, back |-> 0]
    /\ pc' = IF ret = NOT_REACHED THEN "aborted" ELSE "translated"
    /\ UNCHANGED <<otherVars, protocol, frVars, fmrVars, fuVars, curVars>>

\* The canonical event is translated to the Nicira enumeration.
CallEventOfpToNx ==
    /\ pc = "idle"
    /\ \E event \in 0..UINT16_MAX :
          EventReturn("event_to_nx", event,
                      ofp_to_nx_flow_update_event(event))

\* The Nicira wire event is translated to the canonical enumeration.
CallEventNxToOfp ==
    /\ pc = "idle"
    /\ \E event \in 0..UINT16_MAX :
          EventReturn("event_to_ofp", event,
                      nx_to_ofp_flow_update_event(event))

NextEvents == CallEventOfpToNx \/ CallEventNxToOfp

SpecEvents == InitFlags /\ [][NextEvents]_vars

(***************************************************************************)
(* Flow removed: one notification is encoded for a protocol and the        *)
(* message is decoded again.                                               *)
(***************************************************************************)
\* The values each field is drawn from.
FRReasons == OFPRR_IDLE_TIMEOUT..OVS_OFPRR_NONE
FRCounts == {Be64(4660), UINT64_MAX_BE}
FRHardTimeouts == {0, 7}
FRProfiles ==
    { [cookie |-> Be64(4660), priority |-> 100, duration_sec |-> Be32(3),
       duration_nsec |-> Be32(9), idle_timeout |-> 60, match |-> <<>>],
      [cookie |-> UINT64_MAX_BE, priority |-> UINT16_MAX,
       duration_sec |-> UINT32_MAX_BE, duration_nsec |-> Zero32,
       idle_timeout |-> 258, match |-> <<1>>] }

FlowRemoved(prof, reason, table_id, hard, pkts, bytes) ==
    [cookie |-> prof.cookie, priority |-> prof.priority, reason |-> reason,
     table_id |-> table_id, duration_sec |-> prof.duration_sec,
     duration_nsec |-> prof.duration_nsec,
     idle_timeout |-> prof.idle_timeout, hard_timeout |-> hard,
     packet_count |-> pkts, byte_count |-> bytes, match |-> prof.match]

\* Every table id with one choice of the other fields, and every choice of
\* the other fields with the table ids at the ends of the range.
FRInputs ==
    { FlowRemoved(prof, OFPRR_DELETE, t, 0, Be64(4660), Be64(4660)) :
        prof \in FRProfiles, t \in Byte }
    \cup
    { FlowRemoved(x[1], x[2], x[3], x[4], x[5], x[6]) :
        x \in FRProfiles \X FRReasons \X {0, 254, 255} \X FRHardTimeouts
              \X FRCounts \X FRCounts }

InitFR ==
    /\ pc = "start"
    /\ protocol \in Protocols
    /\ flg = IdleFlags
    /\ fr \in FRInputs
    /\ frmsg = <<>> /\ frdec = <<>> /\ frerr = "none"
    /\ sent = <<>> /\ given = <<>> /\ out = EmptyBuf /\ replies = <<>>
    /\ msg = EmptyBuf /\ rq = StaleRequest /\ update = StaleUpdate
    /\ ofpacts = EmptyScratch /\ result = "none" /\ calls = <<>>
    /\ IdleOthers

EncodeFlowRemoved ==
    /\ pc = "start"
    /\ frmsg' = <<ofputil_encode_flow_removed(fr, protocol)>>
    /\ pc' = "encoded"
    /\ UNCHANGED <<otherVars, protocol, flagVars, fr, frdec, frerr, fmrVars, fuVars,
                   curVars>>

DecodeFlowRemoved ==
    /\ pc = "encoded"
    /\ LET d == ofputil_decode_flow_removed(frmsg[1])
       IN  frdec' = d.fr /\ frerr' = d.error
    /\ pc' = "decoded"
    /\ UNCHANGED <<otherVars, protocol, flagVars, fr, frmsg, fmrVars, fuVars, curVars>>

NextFR == EncodeFlowRemoved \/ DecodeFlowRemoved

SpecFR == InitFR /\ [][NextFR]_vars


(***************************************************************************)
(* Flow-monitor requests.  The caller either appends requests to one       *)
(* output buffer and hands the message over, or is given a message off the *)
(* wire; then it calls the decoder until the decoder returns nonzero.      *)
(***************************************************************************)
\* How many requests the caller appends to one buffer.
MaxRequests == 2

FMRProfiles ==
    { [id |-> Be32(1), out_port |-> OFPP_NONE, out_group |-> OFPG_ANY,
       table_id |-> 255, match |-> <<>>],
      [id |-> UINT32_MAX_BE, out_port |-> 1, out_group |-> Be32(5),
       table_id |-> 0, match |-> <<1>>] }

FMRFlags ==
    { 0, OFPFMF_ADD, OfpFmrAllowed, OfpFmrAllowed + OFPFMF_NO_ABBREV }

FMRInputs ==
    { [id |-> x[1].id, command |-> x[2], flags |-> x[3],
       out_port |-> x[1].out_port, out_group |-> x[1].out_group,
       table_id |-> x[1].table_id, match |-> x[1].match] :
        x \in FMRProfiles \X {OFPFMC_ADD, OFPFMC_MODIFY, OFPFMC_DELETE}
              \X FMRFlags }

\* Messages off the wire: a record with any flags word, reserved bytes,
\* command, port and match, alone or followed by more bytes.
WireFlags == {0, 1, 2, 4, 8, 17, 34, 63, 66, 95, 127, 130, 32770, 65535}
WirePorts == {<<0, 0, 0, 1>>, UINT32_MAX_BE, <<0, 1, 0, 0>>}
WireNxMatches ==
    { [match_len |-> 0, bytes |-> <<>>],
      [match_len |-> 6, bytes |-> nx_put_match(<<1>>).bytes],
      [match_len |-> 6, bytes |-> <<>>],
      [match_len |-> 6, bytes |-> Zeros(8)] }
WireOxmMatches ==
    { oxm_put_match(<<>>).bytes, oxm_put_match(<<2>>).bytes, <<>>,
      <<0, 7, 0, 4, 0, 0, 0, 0>> }

WireNxRequests ==
    { Be32(7) \o Htons(x[1]) \o Htons(1) \o Htons(x[3].match_len) \o <<0>>
              \o x[2] \o x[3].bytes :
        x \in WireFlags \X {Zeros(5), <<0, 0, 0, 0, 1>>} \X WireNxMatches }
WireOnfRequests ==
    { Be32(7) \o Htons(x[1]) \o Htons(0) \o x[4] \o <<0>> \o x[2] \o x[3] :
        x \in WireFlags \X {Zeros(3), <<0, 0, 1>>} \X WireOxmMatches
              \X WirePorts }
WireOfp14Requests ==
    { Be32(7) \o x[4] \o OFPG_ANY \o Htons(x[1]) \o <<0, x[2]>> \o x[3] :
        x \in WireFlags \X {OFPFMC_ADD, OFPFMC_MODIFY, OFPFMC_DELETE, 3}
              \X WireOxmMatches \X WirePorts }

\* What may follow the record: nothing, a well-formed request of the same
\* variant, or a few stray bytes.
WireRequestTails(raw) ==
    { <<>>, Zeros(8),
      CASE raw = "NXST_FLOW_MONITOR_REQUEST" ->
           Be32(8) \o Htons(NXFMF_ADD) \o Htons(1) \o Htons(0) \o <<0>>
                   \o Zeros(5)
        [] raw = "ONFST13_FLOW_MONITOR_REQUEST" ->
           Be32(8) \o Htons(NXFMF_ADD) \o Htons(0) \o <<0, 0, 0, 1>> \o <<0>>
                   \o Zeros(3) \o oxm_put_match(<<>>).bytes
        [] raw = "OFPST14_FLOW_MONITOR_REQUEST" ->
           Be32(8) \o <<0, 0, 0, 1>> \o OFPG_ANY \o Htons(OFPFMF_ADD)
                   \o <<0, OFPFMC_ADD>> \o oxm_put_match(<<>>).bytes }

WireRequestMessages ==
    LET Msgs(raw, version, records) ==
            { [header |-> <<>>, front |-> <<[raw |-> raw, version |-> version]>>,
               data |-> x[1] \o x[2]] :
                x \in records \X WireRequestTails(raw) }
    IN  Msgs("NXST_FLOW_MONITOR_REQUEST", OFP10_VERSION, WireNxRequests)
        \cup Msgs("ONFST13_FLOW_MONITOR_REQUEST", OFP13_VERSION,
                  WireOnfRequests)
        \cup Msgs("OFPST14_FLOW_MONITOR_REQUEST", OFP14_VERSION,
                  WireOfp14Requests)

InitMonitor ==
    /\ pc = "idle"
    /\ protocol = "none"
    /\ flg = IdleFlags
    /\ fr = <<>> /\ frmsg = <<>> /\ frdec = <<>> /\ frerr = "none"
    /\ sent = <<>> /\ given = <<>> /\ out = EmptyBuf /\ replies = <<>>
    /\ msg = EmptyBuf /\ rq = StaleRequest /\ update = StaleUpdate
    /\ ofpacts = EmptyScratch /\ result = "none" /\ calls = <<>>
    /\ IdleOthers

\* One call of ofputil_append_flow_monitor_request on the caller's buffer.
AppendFlowMonitorRequest ==
    /\ pc \in {"idle", "requests"}
    /\ Len(sent) < MaxRequests
    /\ \E r \in FMRInputs :
       \E p \in (IF pc = "idle" THEN Protocols ELSE {protocol}) :
          /\ out' = ofputil_append_flow_monitor_request(r, out, p)
          /\ sent' = Append(sent, r)
          /\ protocol' = p
    /\ pc' = "requests"
    /\ UNCHANGED <<otherVars, flagVars, frVars, fuVars, rq, given, msg, result,
                   calls>>

\* The message built is handed to a receiver.
SendRequests ==
    /\ pc = "requests"
    /\ msg' = AsReceived(out)
    /\ pc' = "decode_requests"
    /\ UNCHANGED <<otherVars, protocol, flagVars, frVars, fuVars, fmrVars, sent, given, result,
                   calls>>

\* A message arrives off the wire.
ReceiveRequests ==
    /\ pc = "idle"
    /\ msg' \in WireRequestMessages
    /\ pc' = "decode_requests"
    /\ UNCHANGED <<otherVars, protocol, flagVars, frVars, fuVars, fmrVars, sent, given, result,
                   calls>>

\* One call of ofputil_decode_flow_monitor_request on the cursor; the caller
\* stops at the first nonzero return.
DecodeFlowMonitorRequest ==
    /\ pc = "decode_requests"
    /\ LET d == ofputil_decode_flow_monitor_request(rq, msg)
       IN  /\ msg' = d.msg
           /\ rq' = d.rq
           /\ result' = d.ret
           /\ calls' = Append(calls, [ret |-> d.ret, data |-> msg.data,
                                      after |-> Len(d.msg.data),
                                      rec |-> d.rq])
           /\ pc' = IF d.ret = "0" THEN pc ELSE "done"
    /\ UNCHANGED <<otherVars, protocol, flagVars, frVars, fuVars, out, sent, given>>

NextFMR ==
    \/ AppendFlowMonitorRequest
    \/ SendRequests
    \/ ReceiveRequests
    \/ DecodeFlowMonitorRequest

SpecFMR == InitMonitor /\ [][NextFMR]_vars

(***************************************************************************)
(* Flow updates.  The caller either starts a reply, appends updates to it  *)
(* and hands the message over, or is given a reply off the wire; then it   *)
(* calls the decoder, with one update struct and one scratch buffer, until *)
(* the decoder returns nonzero.                                            *)
(***************************************************************************)
\* How many updates the caller appends to one reply.
MaxUpdates == 2

FUProfiles ==
    { [reason |-> 0, table_id |-> 0, cookie |-> Be64(4660), priority |-> 100,
       idle_timeout |-> 0, hard_timeout |-> 0, match |-> <<>>,
       ofpacts |-> <<>>],
      [reason |-> OFPRR_EVICTION, table_id |-> 255, cookie |-> UINT64_MAX_BE,
       priority |-> UINT16_MAX, idle_timeout |-> 258, hard_timeout |-> 7,
       match |-> <<1>>, ofpacts |-> <<3>>],
      [reason |-> OFPRR_DELETE, table_id |-> 1, cookie |-> Zero64,
       priority |-> 0, idle_timeout |-> 60, hard_timeout |-> UINT16_MAX,
       match |-> <<1, 2>>, ofpacts |-> <<1, 2>>] }

FlowUpdate(event, prof, xid) ==
    [event |-> event, reason |-> prof.reason,
     idle_timeout |-> prof.idle_timeout, hard_timeout |-> prof.hard_timeout,
     table_id |-> prof.table_id, cookie |-> prof.cookie,
     priority |-> prof.priority, match |-> prof.match,
     ofpacts |-> prof.ofpacts,
     ofpacts_len |-> Len(prof.ofpacts) * OFPACT_OUTPUT_SIZE,
     xid |-> xid, tab |-> "callers_table"]

\* Full updates of every kind with every profile, abbreviated updates with
\* two transaction ids, and the pause markers.
FUInputs ==
    { FlowUpdate(x[1], x[2], Zero32) :
        x \in (FullEvents \cup {OFPFME_INITIAL}) \X FUProfiles }
    \cup
    { FlowUpdate(OFPFME_ABBREV, prof, xid) :
        prof \in {CHOOSE q \in FUProfiles : q.match = <<>>},
        xid \in {Be32(7), UINT32_MAX_BE} }
    \cup
    { FlowUpdate(e, prof, Zero32) :
        e \in {OFPFME_PAUSED, OFPFME_RESUMED},
        prof \in {CHOOSE q \in FUProfiles : q.match = <<>>} }

\* One call of ofputil_start_flow_update.
StartFlowUpdate ==
    /\ pc = "idle"
    /\ \E p \in Protocols :
          /\ protocol' = p
          /\ replies' = ofputil_start_flow_update(p)
    /\ pc' = "updates"
    /\ UNCHANGED <<otherVars, flagVars, frVars, fmrVars, update, ofpacts, curVars>>

\* One call of ofputil_append_flow_update on the replies.
AppendFlowUpdate ==
    /\ pc = "updates"
    /\ Len(sent) < MaxUpdates
    /\ \E u \in FUInputs :
          LET a == ofputil_append_flow_update(u, replies, "tun_table")
          IN  /\ replies' = a.replies
              /\ sent' = Append(sent, a.update)
              /\ given' = Append(given, u)
              /\ pc' = IF a.aborted THEN "aborted" ELSE pc
    /\ UNCHANGED <<otherVars, protocol, flagVars, frVars, fmrVars, update, ofpacts, msg,
                   result, calls>>

\* The reply built is handed to a receiver.
SendUpdates ==
    /\ pc = "updates"
    /\ msg' = AsReceived(replies[1])
    /\ pc' = "decode_updates"
    /\ UNCHANGED <<otherVars, protocol, flagVars, frVars, fmrVars, fuVars, sent, given, result,
                   calls>>

\* Replies off the wire.  A record of the size of an abbreviated update
\* with any declared length and event code:
WireLengths == {0, 4, 8, 12, 16, 24, 32, 40, 48, 56}
WireEvents == 0..7
WireShortUpdates ==
    { Htons(x[1]) \o Htons(x[2]) \o Be32(7) :
        x \in WireLengths \X WireEvents }
    \cup { <<0, 8>>, <<0, 8, 0>> }

\* and one of the size of a full update or more, with any declared length,
\* event code, match and actions.
NxFullPrefix(len, event, match_len) ==
    Htons(len) \o Htons(event) \o Htons(OFPRR_DELETE) \o Htons(100)
    \o Htons(60) \o Htons(7) \o Htons(match_len) \o <<1, 0>> \o Be64(4660)
Ofp14FullPrefix(len, event) ==
    Htons(len) \o Htons(event) \o <<1, OFPRR_DELETE>> \o Htons(60)
    \o Htons(7) \o Htons(100) \o Zeros(4) \o Be64(4660)

WireNxUpdateMatches ==
    { [match_len |-> 0, bytes |-> <<>>],
      [match_len |-> 6, bytes |-> nx_put_match(<<1>>).bytes],
      [match_len |-> 30, bytes |-> nx_put_match(<<1>>).bytes],
      [match_len |-> 6, bytes |-> Zeros(8)] }
WireOxmUpdateMatches ==
    { [match_len |-> 4, bytes |-> oxm_put_match(<<>>).bytes],
      [match_len |-> 12, bytes |-> oxm_put_match(<<2>>).bytes],
      [match_len |-> 60, bytes |-> oxm_put_match(<<2>>).bytes],
      [match_len |-> 4, bytes |-> <<0, 7, 0, 4, 0, 0, 0, 0>>],
      [match_len |-> 4, bytes |-> oxm_put_match(<<2>>).bytes] }
WireActions(version) ==
    { <<>>, Zeros(8),
      IF version = OFP10_VERSION
      THEN ofpacts_put_openflow_actions(<<3>>, version)
      ELSE ofpacts_put_openflow_instructions(<<3>>, version) }

WireFullUpdates(raw, version) ==
    { (IF raw = "OFPST14_FLOW_MONITOR_REPLY"
       THEN Ofp14FullPrefix(x[1], x[2])
       ELSE NxFullPrefix(x[1], x[2], x[3].match_len))
      \o x[3].bytes \o x[4] :
        x \in (WireLengths \ {0, 4, 8, 12}) \X WireEvents
              \X (IF raw = "NXST_FLOW_MONITOR_REPLY"
                  THEN WireNxUpdateMatches ELSE WireOxmUpdateMatches)
              \X WireActions(version) }

\* What may follow the record: nothing, a well-formed abbreviated update of
\* the same family, or a few stray bytes.
WireUpdateTails(raw) ==
    { <<>>, Zeros(4),
      Htons(FU_ABBREV_LEN)
      \o Htons(IF raw = "OFPST14_FLOW_MONITOR_REPLY" THEN OFPFME_ABBREV
               ELSE NXFME_ABBREV)
      \o Be32(8) }

WireUpdateMessages ==
    LET Msgs(raw, version) ==
            { [header |-> <<>>, front |-> <<[raw |-> raw, version |-> version]>>,
               data |-> x[1] \o x[2]] :
                x \in (WireShortUpdates \cup WireFullUpdates(raw, version))
                      \X WireUpdateTails(raw) }
    IN  Msgs("NXST_FLOW_MONITOR_REPLY", OFP10_VERSION)
        \cup Msgs("ONFST13_FLOW_MONITOR_REPLY", OFP13_VERSION)
        \cup Msgs("OFPST14_FLOW_MONITOR_REPLY", OFP14_VERSION)

\* A reply arrives off the wire.
ReceiveUpdates ==
    /\ pc = "idle"
    /\ msg' \in WireUpdateMessages
    /\ pc' = "decode_updates"
    /\ UNCHANGED <<otherVars, protocol, flagVars, frVars, fmrVars, fuVars, sent, given, result,
                   calls>>

\* One call of ofputil_decode_flow_update on the cursor; the caller stops at
\* the first nonzero return, and a call that runs into OVS_NOT_REACHED()
\* ends the process.
DecodeFlowUpdate ==
    /\ pc = "decode_updates"
    /\ LET d == ofputil_decode_flow_update(update, msg, ofpacts)
       IN  /\ msg' = d.msg
           /\ update' = d.update
           /\ ofpacts' = d.ofpacts
           /\ result' = d.ret
           /\ calls' = Append(calls,
                          [ret |-> d.ret, data |-> msg.data,
                           after |-> Len(d.msg.data), rec |-> d.update,
                           acts |-> Slice(d.ofpacts.mem, 1, d.ofpacts.size),
                           len |-> d.len])
           /\ pc' = CASE d.ret = "0" -> pc
                      [] d.ret = "ABORT" -> "aborted"
                      [] OTHER -> "done"
    /\ UNCHANGED <<otherVars, protocol, flagVars, frVars, fmrVars, replies, sent, given>>

NextFU ==
    \/ StartFlowUpdate
    \/ AppendFlowUpdate
    \/ SendUpdates
    \/ ReceiveUpdates
    \/ DecodeFlowUpdate

SpecFU == InitMonitor /\ [][NextFU]_vars

\* Both streams.
NextStream == NextFMR \/ NextFU

SpecStream == InitMonitor /\ [][NextStream]_vars

(***************************************************************************)
(* Flow-monitor cancel: an id is encoded for a protocol, or a message      *)
(* arrives off the wire; then the message is decoded.                      *)
(***************************************************************************)
CancelHalves == {0, 1, 42, 255, 256, 32768, UINT16_MAX}
CancelIds == {U32(hi, lo) : hi \in CancelHalves, lo \in CancelHalves}

WireCancelMessages ==
    { [header |-> <<>>, front |-> <<[raw |-> raw, version |-> version]>>,
       data |-> d] :
        raw \in CancelRaws \cup {"UNKNOWN", "NXT_FLOW_MONITOR_PAUSED"},
        version \in {OFP10_VERSION, OFP13_VERSION},
        d \in {<<0, 0, 0, 42>>, <<255, 255, 255, 255>>, <<0, 0, 0, 0, 0>>} }

EncodeFlowMonitorCancel ==
    /\ pc = "idle"
    /\ \E id \in CancelIds, p \in Protocols :
          /\ cancel' = [src |-> "encoded", id |-> <<id>>,
                        msg |-> ofputil_encode_flow_monitor_cancel(id, p),
                        ret |-> <<>>]
          /\ protocol' = p
    /\ pc' = "cancel"
    /\ UNCHANGED <<rfVars, parseVars, flagVars, frVars, fmrVars, fuVars, curVars>>

ReceiveCancel ==
    /\ pc = "idle"
    /\ \E m \in WireCancelMessages :
          cancel' = [src |-> "wire", id |-> <<>>, msg |-> m, ret |-> <<>>]
    /\ pc' = "cancel"
    /\ UNCHANGED <<rfVars, parseVars, protocol, flagVars, frVars, fmrVars, fuVars, curVars>>

\* The receiver's call of ofputil_decode_flow_monitor_cancel on the message.
DecodeFlowMonitorCancel ==
    /\ pc = "cancel"
    /\ LET d == ofputil_decode_flow_monitor_cancel(AsReceived(cancel.msg))
       IN  /\ cancel' = [cancel EXCEPT !.ret = <<d>>]
           /\ pc' = IF d.aborted THEN "aborted" ELSE "cancel_decoded"
    /\ UNCHANGED <<rfVars, parseVars, protocol, flagVars, frVars, fmrVars, fuVars, curVars>>

\* A 1.4+ cancel is a flow-monitor request: the receiver iterates over it
\* with ofputil_decode_flow_monitor_request.
DeliverCancelRequest ==
    /\ pc = "cancel"
    /\ cancel.msg.front[1].raw = "OFPST14_FLOW_MONITOR_REQUEST"
    /\ msg' = AsReceived(cancel.msg)
    /\ pc' = "decode_requests"
    /\ UNCHANGED <<otherVars, protocol, flagVars, frVars, fmrVars, fuVars, sent,
                   given, result, calls>>

NextCancel ==
    \/ EncodeFlowMonitorCancel
    \/ ReceiveCancel
    \/ DecodeFlowMonitorCancel
    \/ DeliverCancelRequest
    \/ DecodeFlowMonitorRequest

SpecCancel == InitMonitor /\ [][NextCancel]_vars

(***************************************************************************)
(* Request forward.  A sender builds a wrapper around records of its own   *)
(* and encodes it, or a message arrives off the wire; the receiver decodes *)
(* the message into its wrapper and destroys the wrapper after a           *)
(* successful decode.  One caller goes through a single cycle with every   *)
(* input, another through MaxCycles cycles with a few.                     *)
(***************************************************************************)
MaxCycles == 3

ForwardXids(rich) ==
    IF rich THEN {<<0, 0, 0, 7>>, <<255, 254, 253, 252>>}
    ELSE {<<0, 0, 0, 7>>}
GroupMods(rich) ==
    {[command |-> 0, type |-> 0, group_id |-> Be32(5)]}
        \cup (IF rich
              THEN {[command |-> 2, type |-> 1, group_id |-> UINT32_MAX_BE]}
              ELSE {})
MeterMods(rich) ==
    {[command |-> 1, flags |-> 3, meter_id |-> Be32(3),
      bands |-> <<[type |-> 1, rate |-> 10]>>]}
        \cup (IF rich
              THEN {[command |-> 0, flags |-> 1, meter_id |-> Be32(4),
                     bands |-> <<>>],
                    [command |-> 0, flags |-> 1, meter_id |-> Be32(4),
                     bands |-> <<[type |-> 1, rate |-> 10],
                                 [type |-> 2, rate |-> 20]>>]}
              ELSE {})

\* What a sender forwards: the reason, the transaction id, the record and,
\* for a group mod, whether there is a side table of new buckets.
ForwardPlans(rich) ==
    { [reason |-> "OFPRFR_GROUP_MOD", xid |-> x, rec |-> gm, side |-> sd] :
        x \in ForwardXids(rich), gm \in GroupMods(rich), sd \in BOOLEAN }
    \cup
    { [reason |-> "OFPRFR_METER_MOD", xid |-> x, rec |-> mm,
       side |-> FALSE] :
        x \in ForwardXids(rich), mm \in MeterMods(rich) }
    \cup
    (IF rich
     THEN {[reason |-> "OFPRFR_N_REASONS", xid |-> <<0, 0, 0, 7>>,
            rec |-> <<>>, side |-> FALSE]}
     ELSE {})

\* The sender's wrapper for a plan and the heap with the sender's records.
BuiltForward(plan, h) ==
    CASE plan.reason = "OFPRFR_GROUP_MOD" ->
           LET h1 == Malloc(h, "group_mod", "caller", plan.rec)
               h2 == IF plan.side
                     THEN Malloc(h1, "new_buckets", "caller", <<>>)
                     ELSE h1
           IN  [rf |-> [xid |-> plan.xid, reason |-> plan.reason,
                        group_mod |-> Len(h1), meter_mod |-> NULL,
                        bands |-> NULL,
                        new_buckets |-> IF plan.side THEN Len(h2) ELSE NULL,
                        group_existed |-> IF plan.side THEN 1 ELSE -1],
                heap |-> h2]
      [] plan.reason = "OFPRFR_METER_MOD" ->
           LET h1 == Malloc(h, "meter_mod", "caller", plan.rec)
               h2 == Malloc(h1, "bands", "caller", plan.rec.bands)
           IN  [rf |-> [xid |-> plan.xid, reason |-> plan.reason,
                        group_mod |-> NULL, meter_mod |-> Len(h1),
                        bands |-> Len(h2), new_buckets |-> NULL,
                        group_existed |-> -1],
                heap |-> h2]
      [] OTHER ->
           [rf |-> [xid |-> plan.xid, reason |-> plan.reason,
                    group_mod |-> NULL, meter_mod |-> NULL, bands |-> NULL,
                    new_buckets |-> NULL, group_existed |-> -1],
            heap |-> h]

\* Messages off the wire: outer headers of the three variants and of
\* another type, around inner bytes with every kind of defect.
WireInnerBodies(rich) ==
    {Zeros(8), <<0, 9>> \o Zeros(6)}
    \cup (IF rich
          THEN {<<>>, Zeros(8) \o <<0, 1>> \o Zeros(14),
                Zeros(8) \o <<0, 7>> \o Zeros(14), Zeros(12)}
          ELSE {})

WireInners(version, rich) ==
    { OfpHeader(v, type, len, <<0, 0, 0, 7>>) \o body :
        v \in (IF rich THEN {version, OFP12_VERSION} ELSE {version}),
        type \in (IF rich
                  THEN {OFPT_HELLO, OFPT_GROUP_MOD, OFPT_METER_MOD, 99}
                  ELSE {OFPT_GROUP_MOD, OFPT_METER_MOD}),
        len \in (IF rich THEN {4, 8, 16, 20, 32, 200} ELSE {16}),
        body \in WireInnerBodies(rich) }
    \cup (IF rich THEN {<<>>, <<version, OFPT_GROUP_MOD, 0, 16>>} ELSE {})

WireForwardMessages(rich) ==
    LET Msgs(raw, version) ==
            { [header |-> <<>>, front |-> <<[raw |-> raw, version |-> version]>>,
               data |-> d] : d \in WireInners(version, rich) }
    IN  Msgs("ONFT13_REQUESTFORWARD", OFP13_VERSION)
        \cup (IF rich
              THEN Msgs("NXT_REQUESTFORWARD", OFP10_VERSION)
                   \cup Msgs("OFPT14_REQUESTFORWARD", OFP14_VERSION)
                   \cup { [header |-> <<>>,
                           front |-> <<[raw |-> "NXT_FLOW_MONITOR_CANCEL",
                                        version |-> OFP10_VERSION]>>,
                           data |-> <<0, 0, 0, 42>>] }
              ELSE {})

InitForwardOnce ==
    /\ pc = "idle"
    /\ protocol = "none"
    /\ flg = IdleFlags
    /\ fr = <<>> /\ frmsg = <<>> /\ frdec = <<>> /\ frerr = "none"
    /\ sent = <<>> /\ given = <<>> /\ out = EmptyBuf /\ replies = <<>>
    /\ msg = EmptyBuf /\ rq = StaleRequest /\ update = StaleUpdate
    /\ ofpacts = EmptyScratch /\ result = "none" /\ calls = <<>>
    /\ cancel = IdleCancel
    /\ heap = <<>> /\ srf = StaleForward /\ drf = StaleForward
    /\ rfio = [IdleForwardIo EXCEPT !.rich = TRUE, !.left = 1]
    /\ IdleParse

InitForwardCycles ==
    /\ pc = "idle"
    /\ protocol = "none"
    /\ flg = IdleFlags
    /\ fr = <<>> /\ frmsg = <<>> /\ frdec = <<>> /\ frerr = "none"
    /\ sent = <<>> /\ given = <<>> /\ out = EmptyBuf /\ replies = <<>>
    /\ msg = EmptyBuf /\ rq = StaleRequest /\ update = StaleUpdate
    /\ ofpacts = EmptyScratch /\ result = "none" /\ calls = <<>>
    /\ cancel = IdleCancel
    /\ heap = <<>> /\ srf = StaleForward /\ drf = StaleForward
    /\ rfio = [IdleForwardIo EXCEPT !.left = MaxCycles]
    /\ IdleParse

notRfVars == <<flagVars, frVars, fmrVars, fuVars, curVars, cancel,
               parseVars>>

\* Where a caller stands between two cycles.
BetweenCycles == {"idle", "rf_failed", "rf_destroyed"}

\* The sender fills in a wrapper that points at its own records.
BuildForward ==
    /\ pc \in BetweenCycles
    /\ rfio.left > 0
    /\ \E plan \in ForwardPlans(rfio.rich) :
       \E p \in (IF rfio.rich THEN Protocols ELSE {"OF13_OXM", "OF15_OXM"}) :
          LET b == BuiltForward(plan, heap)
          IN  /\ srf' = b.rf
              /\ heap' = b.heap
              /\ protocol' = p
    /\ rfio' = [rfio EXCEPT !.left = @ - 1, !.src = "encoded",
                            !.msg = EmptyBuf, !.buf = NULL, !.ret = "none",
                            !.before = <<>>]
    /\ pc' = "rf_built"
    /\ UNCHANGED <<notRfVars, drf>>

\* One call of ofputil_encode_requestforward.
EncodeRequestForward ==
    /\ pc = "rf_built"
    /\ LET e == ofputil_encode_requestforward(srf, protocol, heap)
       IN  /\ heap' = e.heap
           /\ rfio' = [rfio EXCEPT !.msg = e.msg, !.buf = e.buf]
           /\ pc' = IF e.aborted THEN "aborted" ELSE "rf_encoded"
    /\ UNCHANGED <<notRfVars, protocol, srf, drf>>

\* The sender calls ofputil_destroy_requestforward on the wrapper it built.
DestroyBuiltForward ==
    /\ pc = "rf_built"
    /\ LET d == ofputil_destroy_requestforward(<<srf>>, heap)
       IN  /\ heap' = d.heap
           /\ rfio' = [rfio EXCEPT !.before = heap]
           /\ pc' = IF d.aborted THEN "aborted" ELSE "rf_built_destroyed"
    /\ UNCHANGED <<notRfVars, protocol, srf, drf>>

\* The message is sent (its buffer deleted) and reaches the receiver.
DeliverForward ==
    /\ pc = "rf_encoded"
    /\ heap' = Free(heap, rfio.buf)
    /\ rfio' = [rfio EXCEPT !.msg = AsReceived(rfio.msg), !.buf = NULL]
    /\ pc' = "rf_received"
    /\ UNCHANGED <<notRfVars, protocol, srf, drf>>

\* A message arrives off the wire.
ReceiveForward ==
    /\ pc \in BetweenCycles
    /\ rfio.left > 0
    /\ \E m \in WireForwardMessages(rfio.rich) :
          rfio' = [rfio EXCEPT !.left = @ - 1, !.src = "wire", !.msg = m,
                               !.buf = NULL, !.ret = "none",
                               !.before = <<>>]
    /\ pc' = "rf_received"
    /\ UNCHANGED <<notRfVars, protocol, heap, srf, drf>>

\* One call of ofputil_decode_requestforward into the receiver's wrapper.
DecodeRequestForward ==
    /\ pc = "rf_received"
    /\ LET d == ofputil_decode_requestforward(rfio.msg, drf, heap)
       IN  /\ drf' = d.rf
           /\ heap' = d.heap
           /\ rfio' = [rfio EXCEPT !.ret = d.ret, !.before = heap]
           /\ pc' = CASE d.ret = "0" -> "rf_decoded"
                      [] d.ret = "ABORT" -> "aborted"
                      [] OTHER -> "rf_failed"
    /\ UNCHANGED <<notRfVars, protocol, srf>>

\* The receiver's call of ofputil_destroy_requestforward after a
\* successful decode.
DestroyRequestForward ==
    /\ pc = "rf_decoded"
    /\ LET d == ofputil_destroy_requestforward(<<drf>>, heap)
       IN  /\ heap' = d.heap
           /\ rfio' = [rfio EXCEPT !.before = heap]
           /\ pc' = IF d.aborted THEN "aborted" ELSE "rf_destroyed"
    /\ UNCHANGED <<notRfVars, protocol, srf, drf>>

\* ofputil_destroy_requestforward(NULL)
DestroyNullForward ==
    /\ pc \in BetweenCycles
    /\ LET d == ofputil_destroy_requestforward(<<>>, heap)
       IN  /\ heap' = d.heap
           /\ rfio' = [rfio EXCEPT !.src = "null", !.before = heap]
    /\ UNCHANGED <<notRfVars, pc, protocol, srf, drf>>

NextForward ==
    \/ BuildForward
    \/ EncodeRequestForward
    \/ DestroyBuiltForward
    \/ DeliverForward
    \/ ReceiveForward
    \/ DecodeRequestForward
    \/ DestroyRequestForward
    \/ DestroyNullForward

SpecForward == InitForwardOnce /\ [][NextForward]_vars

SpecForwardCycles == InitForwardCycles /\ [][NextForward]_vars

(***************************************************************************)
(* Threads that build monitor requests from filter expressions.  The only  *)
(* state they share is the static counter; a call is the atomic increment  *)
(* and then the rest of the function on the thread's own data.             *)
(***************************************************************************)
MaxThreads == 2
MaxCalls == 2

Pair(name, value, kind, verdict, number, field) ==
    [name |-> name, value |-> value, kind |-> kind, verdict |-> verdict,
     number |-> number, field |-> field]

\* Filter expressions: empty, negated flags, keywords with good and bad
\* values, match fields the external parsers accept or turn down.
FilterStrings ==
    { <<>>,
      <<Pair("!own", "", "flag", "ok", 0, 0),
        Pair("table", "1", "keyword", "ok", 1, 0),
        Pair("ip", "", "protocol", "ok", 0, 1),
        Pair("in_port", "1", "field", "ok", 0, 3),
        Pair("out_port", "2", "keyword", "ok", 2, 0),
        Pair("out_group", "3", "keyword", "ok", 3, 0),
        Pair("!abbrev", "", "flag", "ok", 0, 0)>>,
      <<Pair("!add", "", "flag", "ok", 0, 0),
        Pair("bogus", "1", "keyword", "ok", 1, 0)>>,
      <<Pair("tun_id", "5", "field", "not_of10", 0, 2),
        Pair("!modify", "", "flag", "ok", 0, 0)>> }

IdleThread == [pc |-> "idle", calls |-> 0, fmr |-> StaleRequest,
               usable |-> "none", error |-> "none"]

\* A new thread starts.
SpawnThread ==
    /\ pc \in {"idle", "parsing"}
    /\ Len(thr) < MaxThreads
    /\ thr' = Append(thr, IdleThread)
    /\ pc' = "parsing"
    /\ UNCHANGED <<protocol, flagVars, frVars, fmrVars, fuVars, curVars,
                   cancel, rfVars, next_id, issued>>

\* Thread t enters parse_flow_monitor_request__ and takes its id
\* (line 720).
TakeId(t) ==
    /\ pc = "parsing"
    /\ thr[t].pc = "idle"
    /\ thr[t].calls < MaxCalls
    /\ LET c == atomic_count_inc(next_id)
       IN  /\ next_id' = c.new
           /\ issued' = issued \cup {c.old}
           /\ thr' = [thr EXCEPT ![t] =
                         [pc |-> "in_call", calls |-> @.calls + 1,
                          fmr |-> [@.fmr EXCEPT !.id = c.old],
                          usable |-> "none", error |-> "none"]]
    /\ UNCHANGED <<pc, protocol, flagVars, frVars, fmrVars, fuVars, curVars,
                   cancel, rfVars>>

\* Thread t runs the rest of the function on its filter expression and
\* returns.
FinishParse(t) ==
    /\ pc = "parsing"
    /\ thr[t].pc = "in_call"
    /\ \E string \in FilterStrings :
          LET r == ParseRest(thr[t].fmr, thr[t].fmr.id, string)
          IN  thr' = [thr EXCEPT ![t].pc = "idle", ![t].fmr = r.fmr,
                                 ![t].usable = r.usable,
                                 ![t].error = r.error]
    /\ UNCHANGED <<pc, protocol, flagVars, frVars, fmrVars, fuVars, curVars,
                   cancel, rfVars, next_id, issued>>

NextParse ==
    \/ SpawnThread
    \/ \E t \in 1..Len(thr) : TakeId(t)
    \/ \E t \in 1..Len(thr) : FinishParse(t)

SpecParse == InitMonitor /\ [][NextParse]_vars

(***************************************************************************)
(* Properties of the flag translators.                                     *)
(***************************************************************************)
\* The six bits each side of the translators carries.
CanonicalSix == OFPFMF_INITIAL + OFPFMF_ADD + OFPFMF_REMOVED + OFPFMF_MODIFY
                + OFPFMF_INSTRUCTIONS + OFPFMF_ONLY_OWN
DialectSix == NXFMF_INITIAL + NXFMF_ADD + NXFMF_DELETE + NXFMF_MODIFY
              + NXFMF_ACTIONS + NXFMF_OWN

\* C10: the two flag translators are total and mutually inverse on the six
\* supported bits: a canonical word made only of initial / add / delete /
\* modify / instructions / only-own comes back unchanged from
\* dialect_to_canonical(canonical_to_dialect(f)), a dialect word made only of
\* the six dialect bits comes back unchanged from the opposite composition,
\* each output bit is the input bit the table pairs it with, and every other
\* input bit (canonical no-abbrev included) is dropped: no bit outside the
\* six of the target side is ever set in an output.
C10_FlagTranslatorsInverse ==
    /\ pc \in {"translated", "back"} /\ flg.dir = "canonical_to_dialect"
       => /\ ~AnyBitOutside(flg.wire, DialectSix)
          /\ \A k \in 0..4 : Bit(flg.wire, k) = Bit(flg.input, k)
          /\ Bit(flg.wire, 5) = Bit(flg.input, 6)
    /\ pc \in {"translated", "back"} /\ flg.dir = "dialect_to_canonical"
       => /\ ~AnyBitOutside(flg.wire, CanonicalSix)
          /\ \A k \in 0..4 : Bit(flg.wire, k) = Bit(flg.input, k)
          /\ Bit(flg.wire, 6) = Bit(flg.input, 5)
    /\ pc = "back" /\ flg.dir = "canonical_to_dialect"
       => /\ ~AnyBitOutside(flg.back, CanonicalSix)
          /\ (~AnyBitOutside(flg.input, CanonicalSix) => flg.back = flg.input)
    /\ pc = "back" /\ flg.dir = "dialect_to_canonical"
       => /\ ~AnyBitOutside(flg.back, DialectSix)
          /\ (~AnyBitOutside(flg.input, DialectSix) => flg.back = flg.input)

\* All six canonical bits went to the dialect and came back.
C10_Witness ==
    /\ pc = "back"
    /\ flg.dir = "canonical_to_dialect"
    /\ flg.input = CanonicalSix
    /\ flg.wire = DialectSix
    /\ flg.back = CanonicalSix

(***************************************************************************)
(* Properties of the flow-removed codec.                                   *)
(***************************************************************************)
NxmProtocols == {"OF10_NXM", "OF10_NXM_TID"}
Of10StdProtocols == {"OF10_STD", "OF10_STD_TID"}

\* The fields of a flow removed that the round trip is about.
FRFields(f) ==
    [cookie |-> f.cookie, priority |-> f.priority, reason |-> f.reason,
     table_id |-> f.table_id, duration_sec |-> f.duration_sec,
     duration_nsec |-> f.duration_nsec, idle_timeout |-> f.idle_timeout,
     hard_timeout |-> f.hard_timeout, packet_count |-> f.packet_count,
     byte_count |-> f.byte_count]

\* What the round trip may change according to the documented lossy
\* mappings: the reason before 1.4, and the table id and the unknown counts
\* in the 1.0 standard dialect.
DocumentedLoss(f, p) ==
    [FRFields(f) EXCEPT
       !.reason = IF f.reason = OFPRR_METER_DELETE /\ p \notin OF14_UP
                  THEN OFPRR_DELETE ELSE @,
       !.table_id = IF p \in Of10StdProtocols THEN 255 ELSE @,
       !.packet_count = IF p \in Of10StdProtocols /\ @ = UINT64_MAX_BE
                        THEN Zero64 ELSE @,
       !.byte_count = IF p \in Of10StdProtocols /\ @ = UINT64_MAX_BE
                      THEN Zero64 ELSE @]

\* C8 as stated: decode(encode(fr, dialect)) equals fr in every field except
\* for the documented lossy mappings only.
C8_RoundTripAsStated ==
    pc = "decoded"
    => /\ frerr = "0"
       /\ FRFields(frdec[1]) = DocumentedLoss(fr, protocol)

\* C8 as amended: decode(encode(fr, dialect)) equals fr in every field except
\* that meter-delete becomes delete exactly before 1.4, that the 1.0
\* standard dialect turns table_id into 255 and an unknown count into 0, and
\* that the 1.0 standard and the vendor-extension dialects, whose messages
\* have no hard-timeout field, turn hard_timeout into 0.
C8_RoundTripAmended ==
    pc = "decoded"
    => /\ frerr = "0"
       /\ FRFields(frdec[1]) =
            [DocumentedLoss(fr, protocol) EXCEPT
               !.hard_timeout =
                   IF protocol \in Of10StdProtocols \cup NxmProtocols
                   THEN 0 ELSE @]

\* A meter-delete with unknown counts and a hard timeout went through the
\* 1.0 standard dialect.
C8_Witness ==
    /\ pc = "decoded"
    /\ protocol = "OF10_STD"
    /\ fr.reason = OFPRR_METER_DELETE
    /\ fr.packet_count = UINT64_MAX_BE
    /\ fr.hard_timeout = 7
    /\ fr.table_id = 0
    /\ frerr = "0"
    /\ frdec[1].reason = OFPRR_DELETE
    /\ frdec[1].packet_count = Zero64
    /\ frdec[1].hard_timeout = 0
    /\ frdec[1].table_id = 255

\* C9: in the vendor-extension dialect the wire table-id byte is
\* (table_id + 1) mod 256, so 255 is written as 0; decode maps wire 0 to 255
\* and a wire value w > 0 to w - 1; hence the decoded table id is the
\* encoded one for every table id in 0..255.
C9_NxmTableId ==
    protocol \in NxmProtocols
    => /\ pc \in {"encoded", "decoded"}
          => /\ frmsg[1].ofr.table_id = (fr.table_id + 1) % 256
             /\ (fr.table_id = 255 => frmsg[1].ofr.table_id = 0)
       /\ pc = "decoded"
          => /\ frerr = "0"
             /\ frdec[1].table_id =
                  (IF frmsg[1].ofr.table_id = 0 THEN 255
                   ELSE frmsg[1].ofr.table_id - 1)
             /\ frdec[1].table_id = fr.table_id

\* The unspecified table id went through the vendor-extension dialect.
C9_Witness ==
    /\ pc = "decoded"
    /\ protocol = "OF10_NXM"
    /\ fr.table_id = 255
    /\ frmsg[1].ofr.table_id = 0
    /\ frerr = "0"
    /\ frdec[1].table_id = 255

(***************************************************************************)
(* Properties of the flow-monitor request codec.                           *)
(***************************************************************************)
NxFamily == {"OF10_STD", "OF10_STD_TID", "OF10_NXM", "OF10_NXM_TID",
             "OF11_STD", "OF12_OXM", "OF13_OXM"}

\* A request the decoders of every variant accept: one of add / delete /
\* modify and nothing outside the six bits.
SixBitRequest(r) ==
    AnyBit(r.flags, FmrWhen) /\ ~AnyBitOutside(r.flags, OfpFmrAllowed)

\* The fields of a request every variant carries.
CommonFields(r) ==
    [id |-> r.id, out_port |-> r.out_port, table_id |-> r.table_id,
     match |-> r.match]

\* The bytes one record per request takes in the message of protocol p.
RECURSIVE RequestsLen(_, _)
RequestsLen(rs, p) ==
    IF rs = <<>> THEN 0
    ELSE FMR_LEN
         + Len(IF ofputil_protocol_to_ofp_version(p) <= OFP12_VERSION
               THEN nx_put_match(Head(rs).match).bytes
               ELSE oxm_put_match(Head(rs).match).bytes)
         + RequestsLen(Tail(rs), p)

\* C5: n >= 1 successive appends of flow-monitor requests on one initially
\* empty buffer write the message header once and then one record per call,
\* so that the buffer holds the header and n records, and repeated decoding
\* of it returns the n requests in append order and then end-of-records.
C5_AppendsDecodeInOrder ==
    /\ pc = "requests"
       => /\ Len(out.front) = 1
          /\ Len(out.data) = RequestsLen(sent, protocol)
    /\ (/\ pc = "done" /\ sent # <<>>
        /\ \A i \in 1..Len(sent) : SixBitRequest(sent[i]))
       => /\ result = "EOF"
          /\ Len(calls) = Len(sent) + 1
          /\ \A i \in 1..Len(sent) :
                /\ calls[i].ret = "0"
                /\ CommonFields(calls[i].rec) = CommonFields(sent[i])

\* The wire flags and command of the record a decode call was given, and
\* the variant of the message.
CallRaw == msg.header[1].raw
CallFlags(c) ==
    IF CallRaw = "OFPST14_FLOW_MONITOR_REQUEST" THEN Ntohs(c.data, 12)
    ELSE Ntohs(c.data, 4)
CallRecognised ==
    IF CallRaw = "OFPST14_FLOW_MONITOR_REQUEST" THEN CanonicalSix
    ELSE DialectSix
CallExempt(c) ==
    CallRaw = "OFPST14_FLOW_MONITOR_REQUEST" /\ c.data[16] = OFPFMC_DELETE

\* C6: decoding returns the bad-flags error for every record whose flags
\* have none of add / delete / modify (flags = 0 in particular) or have a
\* bit outside the six recognised ones, in all three wire variants, except
\* for a current-standard record with command = delete; and every request
\* decoded successfully with a command other than delete has one of add /
\* delete / modify and no unrecognised bit.
C6_BadFlagsRejected ==
    pc \in {"decode_requests", "done"}
    => \A i \in 1..Len(calls) :
          LET c == calls[i]
          IN  /\ (/\ Len(c.data) >= FMR_LEN
                  /\ ~CallExempt(c)
                  /\ \/ ~AnyBit(CallFlags(c), FmrWhen)
                     \/ AnyBitOutside(CallFlags(c), CallRecognised))
                 => c.ret = "OFPMOFC_BAD_FLAGS"
              /\ (c.ret = "0" /\ c.rec.command # OFPFMC_DELETE)
                 => /\ AnyBit(c.rec.flags, FmrWhen)
                    /\ ~AnyBitOutside(c.rec.flags, CanonicalSix)

\* A vendor-dialect record with flags = 0 was turned down.
C6_Witness ==
    /\ pc = "done"
    /\ sent = <<>>
    /\ CallRaw = "NXST_FLOW_MONITOR_REQUEST"
    /\ Len(calls) = 1
    /\ Ntohs(calls[1].data, 4) = 0
    /\ calls[1].ret = "OFPMOFC_BAD_FLAGS"

\* The flags f on the six bits initial / add / delete / modify /
\* instructions / only-own.
SixBits(f) ==
    Bit(f, 0) + 2 * Bit(f, 1) + 4 * Bit(f, 2) + 8 * Bit(f, 3)
    + 16 * Bit(f, 4) + 64 * Bit(f, 6)

\* C7 as stated: one request r appended to an empty buffer and decoded comes
\* back as r: id, out_port, table_id and match are equal; in the vendor and
\* industry dialects the flags are equal on the six bits, the command is add
\* and out_group is any; in the current-standard dialect the flags are equal
\* on all seven bits, no-abbrev included, and out_group and the command (add
\* or modify) are equal.
C7_RoundTripAsStated ==
    (/\ pc = "done" /\ Len(sent) = 1
     /\ AnyBit(sent[1].flags, FmrWhen)
     /\ protocol \in OF14_UP => sent[1].command # OFPFMC_DELETE)
    => /\ Len(calls) = 2
       /\ calls[1].ret = "0"
       /\ calls[2].ret = "EOF"
       /\ CommonFields(calls[1].rec) = CommonFields(sent[1])
       /\ protocol \in NxFamily
          => /\ calls[1].rec.flags = SixBits(sent[1].flags)
             /\ calls[1].rec.command = OFPFMC_ADD
             /\ calls[1].rec.out_group = OFPG_ANY
       /\ protocol \in OF14_UP
          => /\ calls[1].rec.flags = sent[1].flags
             /\ calls[1].rec.command = sent[1].command
             /\ calls[1].rec.out_group = sent[1].out_group

\* C7 as amended: one request r with one of add / delete / modify, appended
\* to an empty buffer and decoded, comes back with r's id, out_port, table_id
\* and match, and with command = add whatever r's command, in every dialect;
\* in the vendor and industry dialects the flags are r's on the six bits and
\* out_group is any; in the current-standard dialect, whose encoder writes
\* the flags as they are, a request within the six bits comes back with its
\* flags and its out_group, and one with no-abbrev is turned down by the
\* decoder with the bad-flags error.
C7_RoundTripAmended ==
    (pc = "done" /\ Len(sent) = 1 /\ AnyBit(sent[1].flags, FmrWhen))
    => \/ /\ protocol \in OF14_UP
          /\ AnyBit(sent[1].flags, OFPFMF_NO_ABBREV)
          /\ Len(calls) = 1
          /\ calls[1].ret = "OFPMOFC_BAD_FLAGS"
       \/ /\ protocol \in OF14_UP => ~AnyBit(sent[1].flags, OFPFMF_NO_ABBREV)
          /\ Len(calls) = 2
          /\ calls[1].ret = "0"
          /\ calls[2].ret = "EOF"
          /\ CommonFields(calls[1].rec) = CommonFields(sent[1])
          /\ calls[1].rec.command = OFPFMC_ADD
          /\ calls[1].rec.flags = SixBits(sent[1].flags)
          /\ calls[1].rec.out_group =
               (IF protocol \in OF14_UP THEN sent[1].out_group ELSE OFPG_ANY)

\* A request for modifications with all six bits, a port, a group and a
\* match went through the current-standard dialect.
C7_Witness ==
    /\ pc = "done"
    /\ protocol = "OF14_OXM"
    /\ Len(sent) = 1
    /\ sent[1].flags = OfpFmrAllowed
    /\ sent[1].command = OFPFMC_MODIFY
    /\ sent[1].out_group = Be32(5)
    /\ Len(calls) = 2
    /\ calls[1].ret = "0"
    /\ calls[1].rec.command = OFPFMC_ADD
    /\ calls[1].rec.flags = OfpFmrAllowed
    /\ calls[1].rec.out_group = Be32(5)
    /\ calls[1].rec.match = <<1>>

(***************************************************************************)
(* Properties of the flow-update codec.                                    *)
(***************************************************************************)
\* The events a dialect can express: added, removed, modified and abbrev,
\* and initial in the current-standard dialect.
Expressible(u, p) ==
    \/ u.event \in FullEvents \cup {OFPFME_ABBREV}
    \/ u.event = OFPFME_INITIAL /\ p \in OF14_UP

\* The fields of a full update that the round trip is about.
FUFields(u) ==
    [event |-> u.event, reason |-> u.reason, table_id |-> u.table_id,
     cookie |-> u.cookie, priority |-> u.priority,
     idle_timeout |-> u.idle_timeout, hard_timeout |-> u.hard_timeout,
     ofpacts_len |-> u.ofpacts_len]

\* The decode call c returned the update u.
SameUpdate(c, u) ==
    /\ c.ret = "0"
    /\ c.rec.event = u.event
    /\ IF u.event = OFPFME_ABBREV THEN c.rec.xid = u.xid
       ELSE FUFields(c.rec) = FUFields(u)

\* C1: for every dialect and every sequence of updates whose events the
\* dialect can express, starting a reply, appending the updates one by one
\* and decoding the message again and again returns the same updates in the
\* same order (event, reason, table_id, cookie, priority, idle_timeout,
\* hard_timeout and length of the actions of a full update; xid of an
\* abbreviated one) and then end-of-records.
C1_UpdatesRoundTrip ==
    (/\ pc \in {"decode_updates", "done"}
     /\ replies # <<>>
     /\ \A i \in 1..Len(sent) : Expressible(sent[i], protocol))
    => /\ Len(calls) <= Len(sent) + 1
       /\ \A i \in 1..Len(calls) :
             IF i <= Len(sent) THEN SameUpdate(calls[i], sent[i])
             ELSE calls[i].ret = "EOF"
       /\ pc = "done" => Len(calls) = Len(sent) + 1

\* An initial update with a match and an action, then an abbreviated one,
\* went through the current-standard dialect.
C1_Witness ==
    /\ pc = "done"
    /\ protocol = "OF14_OXM"
    /\ Len(sent) = 2
    /\ sent[1].event = OFPFME_INITIAL
    /\ sent[1].ofpacts = <<3>>
    /\ sent[2].event = OFPFME_ABBREV
    /\ sent[2].xid = Be32(7)
    /\ Len(calls) = 3
    /\ calls[1].rec.event = OFPFME_INITIAL
    /\ calls[1].rec.cookie = UINT64_MAX_BE
    /\ calls[1].rec.ofpacts_len = OFPACT_OUTPUT_SIZE
    /\ calls[2].rec.event = OFPFME_ABBREV
    /\ calls[2].rec.xid = Be32(7)
    /\ result = "EOF"

(***************************************************************************)
(* Properties of the iteration over a message.                             *)
(***************************************************************************)
UpdateReplies == {"NXST_FLOW_MONITOR_REPLY", "ONFST13_FLOW_MONITOR_REPLY",
                  "OFPST14_FLOW_MONITOR_REPLY"}
NxReplies == {"NXST_FLOW_MONITOR_REPLY", "ONFST13_FLOW_MONITOR_REPLY"}

\* The message the calls were made on, once the first call has recognised
\* it.
Decoding == calls # <<>> /\ msg.header # <<>>
DecodingUpdates == Decoding /\ msg.header[1].raw \in UpdateReplies

\* The bytes call c took off the cursor, and the bytes the calls before
\* call n took.
Consumed(c) == Len(c.data) - c.after
RECURSIVE ConsumedBefore(_)
ConsumedBefore(n) ==
    IF n <= 1 THEN 0 ELSE ConsumedBefore(n - 1) + Consumed(calls[n - 1])

\* Every successful call takes one whole record off the cursor: at least 8
\* bytes, and for a flow update the length the record declares; the calls
\* are no more than the records the message has room for, and one; and at
\* end-of-records the successful calls have taken the whole record area.
WholeRecordsConsumed ==
    Decoding
    => /\ Len(calls) <= Len(calls[1].data) \div 8 + 1
       /\ \A i \in 1..Len(calls) :
             /\ calls[i].ret = "0"
                => /\ Consumed(calls[i]) >= 8
                   /\ DecodingUpdates
                      => Consumed(calls[i]) = Ntohs(calls[i].data, 0)
             /\ calls[i].ret = "EOF"
                => ConsumedBefore(i) = Len(calls[1].data)

\* C2: on any finite buffer the repeated decode calls, of flow updates and
\* of flow-monitor requests, reach end-of-records or an error after
\* finitely many calls: every call returns, every successful call takes at
\* least one whole record off the cursor (at least 8 bytes, and for a flow
\* update exactly the length the record declares), and at end-of-records
\* the successful calls have taken the whole record area.
C2_StreamIterationTerminates ==
    /\ \A i \in 1..Len(calls) : calls[i].ret # "ABORT"
    /\ WholeRecordsConsumed

\* The event code and the declared length of the record a decode call was
\* given, and the event codes of each kind in the family of the message.
CallEvent(c) == Ntohs(c.data, 2)
CallLength(c) == Ntohs(c.data, 0)
AbbrevCodes ==
    IF msg.header[1].raw \in NxReplies THEN {NXFME_ABBREV}
    ELSE {OFPFME_ABBREV}
MarkerCodes ==
    IF msg.header[1].raw \in NxReplies THEN {}
    ELSE {OFPFME_PAUSED, OFPFME_RESUMED}
FullCodes ==
    IF msg.header[1].raw \in NxReplies
    THEN {NXFME_ADDED, NXFME_DELETED, NXFME_MODIFIED}
    ELSE FullEvents \cup {OFPFME_INITIAL}

\* C3: decoding a flow-update record whose event code is not an event kind
\* of the message's family returns the bad-event error to the caller, in
\* both families: the call never aborts and the record is never skipped.
C3_UnknownEventIsError ==
    DecodingUpdates
    => \A i \in 1..Len(calls) :
          LET c == calls[i]
          IN  (/\ Len(c.data) >= FU_HEADER_LEN
               /\ CallLength(c) <= Len(c.data)
               /\ CallLength(c) % 8 = 0
               /\ CallEvent(c) \notin AbbrevCodes \cup MarkerCodes
                                      \cup FullCodes)
              => /\ c.ret = "NXBRC_FM_BAD_EVENT"
                 /\ Consumed(c) = 0

\* C4: decoding a flow update returns the malformed-length error whenever
\* the cursor is not empty and holds fewer bytes than the 4-byte header, or
\* the declared length is more than the bytes left, or is not a multiple of
\* 8, or does not fit the event kind (abbrev: other than 8; paused or
\* resumed: other than 8; full: less than 24), in both families and also
\* for a declared length of 0.
C4_BadLengthIsError ==
    DecodingUpdates
    => \A i \in 1..Len(calls) :
          LET c == calls[i]
          IN  (/\ c.data # <<>>
               /\ \/ Len(c.data) < FU_HEADER_LEN
                  \/ CallLength(c) > Len(c.data)
                  \/ CallLength(c) % 8 # 0
                  \/ /\ CallEvent(c) \in AbbrevCodes
                     /\ CallLength(c) # FU_ABBREV_LEN
                  \/ /\ CallEvent(c) \in MarkerCodes
                     /\ CallLength(c) # FU_PAUSED_LEN
                  \/ /\ CallEvent(c) \in FullCodes
                     /\ CallLength(c) < FU_FULL_LEN)
              => c.ret = "OFPBRC_BAD_LEN"

\* The malformed-length error in the calls in which the decoder gets as far
\* as the length: those on the current-standard family, and those on records
\* of the other family whose event code the translator knows.
BadLengthIsErrorPastTranslator ==
    DecodingUpdates
    => \A i \in 1..Len(calls) :
          LET c == calls[i]
          IN  (/\ c.data # <<>>
               /\ c.ret # "ABORT"
               /\ \/ Len(c.data) < FU_HEADER_LEN
                  \/ CallLength(c) > Len(c.data)
                  \/ CallLength(c) % 8 # 0
                  \/ /\ CallEvent(c) \in AbbrevCodes
                     /\ CallLength(c) # FU_ABBREV_LEN
                  \/ /\ CallEvent(c) \in MarkerCodes
                     /\ CallLength(c) # FU_PAUSED_LEN
                  \/ /\ CallEvent(c) \in FullCodes
                     /\ CallLength(c) < FU_FULL_LEN)
              => c.ret = "OFPBRC_BAD_LEN"


(***************************************************************************)
(* Properties of the flow-monitor cancel codec.                            *)
(***************************************************************************)
Pre14Protocols == Protocols \ OF14_UP

\* C11: for every 32-bit monitor id and every protocol of versions 1.0 to
\* 1.3 (vendor-extension or industry-extension cancel message), decoding the
\* message that ofputil_encode_flow_monitor_cancel built returns the id.
C11_CancelRoundTrip ==
    (/\ pc \in {"cancel_decoded", "aborted"}
     /\ cancel.src = "encoded"
     /\ protocol \in Pre14Protocols)
        => /\ pc = "cancel_decoded"
           /\ cancel.ret = <<[aborted |-> FALSE, value |-> cancel.id[1]]>>

C11_Witness ==
    /\ pc = "cancel_decoded"
    /\ cancel.src = "encoded"
    /\ protocol = "OF13_OXM"
    /\ cancel.msg.front[1].raw = "ONFT13_FLOW_MONITOR_CANCEL"
    /\ cancel.id = <<U32(32768, 42)>>
    /\ cancel.ret[1].value = U32(32768, 42)


(***************************************************************************)
(* Properties of the request-forward codec.                                *)
(***************************************************************************)
\* The message the last decode call was given, and what it declares.
FwdOuterVersion == rfio.msg.front[1].version
FwdPayload == rfio.msg.data
FwdDeclared == Ntohs(FwdPayload, 2)
FwdInner == Slice(FwdPayload, 1, FwdDeclared)

\* The first check of the validation order that the message fails.
FwdStage ==
    IF Len(FwdPayload) < 8 THEN "length"
    ELSE IF FwdDeclared < 8 \/ FwdDeclared > Len(FwdPayload) THEN "length"
    ELSE IF FwdPayload[1] # FwdOuterVersion THEN "version"
    ELSE IF ofptype_decode(FwdInner).error # "0" THEN "type"
    ELSE IF ofptype_decode(FwdInner).type = "OFPTYPE_GROUP_MOD"
    THEN "group_mod"
    ELSE IF ofptype_decode(FwdInner).type = "OFPTYPE_METER_MOD"
    THEN "meter_mod"
    ELSE "unsupported"

FwdDecodeReturned == pc \in {"rf_decoded", "rf_failed"}

\* C12: request-forward decode reports the first failing check of a fixed
\* order: malformed length if the payload is shorter than a header or the
\* inner declared length is below a header or beyond the payload, else bad
\* version if inner and outer versions differ, else the type recogniser's
\* error, else unsupported if the inner type is neither group-mod nor
\* meter-mod; only then the sub-decoder's result is the call's result.
C12_ForwardValidationOrder ==
    FwdDecodeReturned =>
        rfio.ret =
            CASE FwdStage = "length" -> "OFPBFC_MSG_BAD_LEN"
              [] FwdStage = "version" -> "OFPBRC_BAD_VERSION"
              [] FwdStage = "type" -> ofptype_decode(FwdInner).error
              [] FwdStage = "unsupported" -> "OFPBFC_MSG_UNSUP"
              [] FwdStage = "group_mod"
                   -> ofputil_decode_group_mod(FwdInner).error
              [] FwdStage = "meter_mod"
                   -> ofputil_decode_meter_mod(FwdInner).error

\* A message with three defects at once (declared length beyond the payload,
\* another version, an unknown type) is turned down for its length.
C12_Witness ==
    /\ pc = "rf_failed"
    /\ rfio.ret = "OFPBFC_MSG_BAD_LEN"
    /\ Len(FwdPayload) >= 8
    /\ FwdDeclared > Len(FwdPayload)
    /\ FwdPayload[1] # FwdOuterVersion
    /\ FwdPayload[2] = 99

\* The blocks the last call of decode or destroy allocated.
NewBlocks == (Len(rfio.before) + 1)..Len(heap)
OldBlocksUntouched ==
    /\ Len(heap) >= Len(rfio.before)
    /\ \A i \in 1..Len(rfio.before) : heap[i] = rfio.before[i]

\* C13: on every error return of request-forward decode each block the call
\* allocated has been released exactly once, and nothing was allocated when
\* the failure came before the sub-decoder; on a successful return the
\* wrapper holds exactly one inner record, and a band list if and only if
\* the reason is meter-mod.
C13_ForwardDecodeOwnership ==
    FwdDecodeReturned =>
        /\ OldBlocksUntouched
        /\ pc = "rf_failed" =>
              /\ \A i \in NewBlocks : heap[i].state = "freed"
              /\ FwdStage \notin {"group_mod", "meter_mod"}
                    => heap = rfio.before
        /\ (pc = "rf_decoded" /\ drf.reason = "OFPRFR_GROUP_MOD") =>
              /\ Len(heap) = Len(rfio.before) + 1
              /\ drf.group_mod = Len(heap)
              /\ heap[drf.group_mod].kind = "group_mod"
              /\ heap[drf.group_mod].state = "allocated"
        /\ (pc = "rf_decoded" /\ drf.reason = "OFPRFR_METER_MOD") =>
              /\ Len(heap) = Len(rfio.before) + 2
              /\ {drf.meter_mod, drf.bands} = NewBlocks
              /\ heap[drf.meter_mod].kind = "meter_mod"
              /\ heap[drf.bands].kind = "bands"
              /\ \A i \in NewBlocks : heap[i].state = "allocated"
        /\ pc = "rf_decoded" =>
              drf.reason \in {"OFPRFR_GROUP_MOD", "OFPRFR_METER_MOD"}

\* The meter-mod sub-decoder fails and both blocks are released.
C13_Witness ==
    /\ pc = "rf_failed"
    /\ FwdStage = "meter_mod"
    /\ Len(heap) = Len(rfio.before) + 2
    /\ heap[Len(heap)].kind = "bands"
    /\ heap[Len(heap)].state = "freed"
    /\ heap[Len(heap) - 1].state = "freed"

DecodeOwned(i) == heap[i].owner = "decode"

\* C14: after any sequence of encode / decode / destroy cycles with one
\* destroy per successful decode, no inner record and no band list of a
\* decode is still allocated and none was released twice; destroy on a null
\* wrapper changes nothing; destroy never releases a new-bucket side table.
C14_ForwardCyclesLeaveNothing ==
    /\ pc \in BetweenCycles =>
          \A i \in 1..Len(heap) : DecodeOwned(i) => heap[i].state = "freed"
    /\ \A i \in 1..Len(heap) :
          DecodeOwned(i) => heap[i].state # "freed_twice"
    /\ (pc \in BetweenCycles /\ rfio.src = "null") => heap = rfio.before
    /\ \A i \in 1..Len(heap) :
          heap[i].kind = "new_buckets" => heap[i].state = "allocated"

\* MaxCycles cycles are over, a meter mod and a group mod among them.
C14_Witness ==
    /\ pc = "rf_destroyed"
    /\ rfio.left = 0
    /\ \E i, j, k \in 1..Len(heap) :
          /\ DecodeOwned(i) /\ heap[i].kind = "bands"
          /\ DecodeOwned(j) /\ heap[j].kind = "group_mod"
          /\ DecodeOwned(k) /\ heap[k].kind = "meter_mod"
          /\ heap[i].state = "freed" /\ heap[j].state = "freed"
          /\ heap[k].state = "freed"

FwdSubEncoded ==
    IF srf.reason = "OFPRFR_GROUP_MOD"
    THEN ofputil_encode_group_mod(ofputil_protocol_to_ofp_version(protocol),
             heap[srf.group_mod].val, srf.new_buckets, srf.group_existed)
    ELSE ofputil_encode_meter_mod(ofputil_protocol_to_ofp_version(protocol),
                                  heap[srf.meter_mod].val)

FwdEncodedForBothReasons ==
    /\ rfio.src = "encoded"
    /\ srf.reason \in {"OFPRFR_GROUP_MOD", "OFPRFR_METER_MOD"}

\* C16: for both reasons and every protocol the encoded outer message has
\* the vendor-extension raw type below 1.3, the industry-extension one for
\* 1.3 and the standard one from 1.4 on; its payload is the inner message
\* verbatim with the wrapper's xid and the inner size in the length field;
\* and decoding it passes validation and returns the same reason and xid,
\* with new_buckets null and group_existed = -1.
C16_ForwardEncodeDecode ==
    /\ (FwdEncodedForBothReasons /\ pc = "rf_encoded") =>
          LET version == ofputil_protocol_to_ofp_version(protocol)
              payload == rfio.msg.data
          IN  /\ rfio.msg.front[1].version = version
              /\ rfio.msg.front[1].raw =
                    CASE version \in {OFP10_VERSION, OFP11_VERSION,
                                      OFP12_VERSION}
                           -> "NXT_REQUESTFORWARD"
                      [] version = OFP13_VERSION -> "ONFT13_REQUESTFORWARD"
                      [] version \in {OFP14_VERSION, OFP15_VERSION}
                           -> "OFPT14_REQUESTFORWARD"
              /\ Len(payload) = Len(FwdSubEncoded)
              /\ Slice(payload, 1, 2) = Slice(FwdSubEncoded, 1, 2)
              /\ Ntohs(payload, 2) = Len(payload)
              /\ Slice(payload, 5, 8) = srf.xid
              /\ Drop(payload, 8) = Drop(FwdSubEncoded, 8)
    /\ (FwdEncodedForBothReasons
        /\ pc \in {"rf_decoded", "rf_failed", "aborted"}) =>
          /\ pc = "rf_decoded"
          /\ rfio.ret = "0"
          /\ drf.reason = srf.reason
          /\ drf.xid = srf.xid
          /\ drf.new_buckets = NULL
          /\ drf.group_existed = -1

\* A group mod sent with a side table of new buckets comes back without.
C16_Witness ==
    /\ pc = "rf_decoded"
    /\ rfio.src = "encoded"
    /\ protocol = "OF10_NXM"
    /\ rfio.msg.front[1].raw = "NXT_REQUESTFORWARD"
    /\ srf.reason = "OFPRFR_GROUP_MOD"
    /\ srf.new_buckets # NULL /\ srf.group_existed = 1
    /\ drf.new_buckets = NULL /\ drf.group_existed = -1
    /\ drf.xid = <<255, 254, 253, 252>>


(***************************************************************************)
(* Properties of the monitor-id counter.                                   *)
(***************************************************************************)
RECURSIVE CallsBegun(_)
CallsBegun(k) == IF k = 0 THEN 0 ELSE thr[k].calls + CallsBegun(k - 1)

\* C17: under any interleaving of threads that build monitor requests from
\* filter expressions no two calls are given the same id: every call, also
\* one whose parse fails later, takes exactly one value from the counter by
\* one atomic increment, and the counter is never decremented or reset (it
\* always equals the number of calls begun).
C17_IdsUnique ==
    pc = "parsing" =>
        /\ Cardinality(issued) = CallsBegun(Len(thr))
        /\ next_id = U32(0, CallsBegun(Len(thr)))
        /\ \A t \in 1..Len(thr) :
              thr[t].calls > 0 => thr[t].fmr.id \in issued
        /\ \A t, u \in 1..Len(thr) :
              (t # u /\ thr[t].calls > 0 /\ thr[u].calls > 0)
                  => thr[t].fmr.id # thr[u].fmr.id

\* Two threads, four calls: the second thread's last call failed and keeps
\* id 2 while the first thread is inside its call with id 3.
C17_Witness ==
    /\ pc = "parsing"
    /\ Len(thr) = 2
    /\ thr[1].pc = "in_call" /\ thr[1].fmr.id = U32(0, 3)
    /\ thr[2].pc = "idle" /\ thr[2].fmr.id = U32(0, 2)
    /\ thr[2].error = "unknown keyword"
    /\ next_id = U32(0, 4)


(***************************************************************************)
(* Properties of the records that carry no match and no actions.           *)
(***************************************************************************)
NoPayloadEvents == {OFPFME_ABBREV, OFPFME_PAUSED, OFPFME_RESUMED}

\* C18: after a successful decode of an abbrev, paused or resumed record the
\* caller's flow update carries no actions: its actions length is 0 and its
\* actions pointer does not refer to the actions of a record decoded
\* earlier into the same struct and scratch buffer.
C18_NoPayloadRecordsCarryNoActions ==
    DecodingUpdates
    => \A i \in 1..Len(calls) :
          LET c == calls[i]
          IN  (c.ret = "0" /\ c.rec.event \in NoPayloadEvents)
              => /\ c.rec.ofpacts_len = 0
                 /\ c.rec.ofpacts # "scratch"

\* The scratch buffer itself is empty after every such call.
NoPayloadRecordsLeaveScratchEmpty ==
    DecodingUpdates
    => \A i \in 1..Len(calls) :
          (calls[i].ret = "0" /\ calls[i].rec.event \in NoPayloadEvents)
              => calls[i].acts = <<>>


\* The updates appended so far are all of a kind without match and actions
\* in the protocol in use, taken from the set kinds.
AllSentAmong(kinds) ==
    /\ pc \in {"updates", "decode_updates", "done"}
    /\ replies # <<>>
    /\ sent # <<>>
    /\ \A i \in 1..Len(sent) : sent[i].event \in kinds

FixedSizeAndDecodedBack ==
    /\ Len(replies[1].data) = FU_ABBREV_LEN * Len(sent)
    /\ \A i \in 1..Len(calls) :
          i <= Len(sent) => /\ calls[i].ret = "0"
                            /\ calls[i].rec.event = sent[i].event

\* C19: every record that ofputil_append_flow_update writes for an event
\* without match and actions has the fixed size of its kind and is decoded
\* back as the same event: an abbrev record is 8 bytes in every protocol,
\* and a paused or resumed event appended in a 1.4+ protocol is the 8-byte
\* marker, with no prefix, match or action bytes.
C19_NoPayloadRecordsFixedSize ==
    AllSentAmong(IF protocol \in OF14_UP THEN NoPayloadEvents
                 ELSE {OFPFME_ABBREV})
        => FixedSizeAndDecodedBack

\* The same for abbreviated updates alone.
AbbrevRecordsFixedSize ==
    AllSentAmong({OFPFME_ABBREV}) => FixedSizeAndDecodedBack

(***************************************************************************)
(* The event translators.                                                  *)
(***************************************************************************)
EventCalled(dir) == pc \in {"translated", "aborted"} /\ flg.dir = dir

EventFaulted == pc = "aborted" /\ flg.wire = NOT_REACHED

EventMapped(to) == pc = "translated" /\ flg.wire = to

\* The translator from the Nicira wire enumeration: added, deleted,
\* modified and abbrev map to added, removed, modified and abbrev, every
\* other wire code faults.
WireEventToCanonical ==
    EventCalled("event_to_ofp") =>
        IF flg.input = NXFME_ADDED THEN EventMapped(OFPFME_ADDED)
        ELSE IF flg.input = NXFME_DELETED THEN EventMapped(OFPFME_REMOVED)
        ELSE IF flg.input = NXFME_MODIFIED THEN EventMapped(OFPFME_MODIFIED)
        ELSE IF flg.input = NXFME_ABBREV THEN EventMapped(OFPFME_ABBREV)
        ELSE EventFaulted

\* The translator toward the Nicira wire enumeration on the four events
\* both enumerations have, and on the codes neither has.
CanonicalEventToWire(faulting) ==
    EventCalled("event_to_nx") =>
        IF flg.input = OFPFME_ADDED THEN EventMapped(NXFME_ADDED)
        ELSE IF flg.input = OFPFME_REMOVED THEN EventMapped(NXFME_DELETED)
        ELSE IF flg.input = OFPFME_MODIFIED THEN EventMapped(NXFME_MODIFIED)
        ELSE IF flg.input = OFPFME_ABBREV THEN EventMapped(NXFME_ABBREV)
        ELSE IF flg.input = OFPFME_INITIAL /\ ~faulting
             THEN EventMapped(NXFME_ADDED)
        ELSE EventFaulted

\* C20 as stated: the translator toward the Nicira wire enumeration maps
\* added to added, removed to deleted, modified to modified, abbrev to
\* abbrev and faults on every other canonical event, namely initial, paused
\* and resumed; the opposite translator maps wire added, deleted, modified
\* and abbrev to added, removed, modified and abbrev and faults on every
\* other wire code.
C20_EventTranslatorsFaultOnInitial ==
    CanonicalEventToWire(TRUE) /\ WireEventToCanonical

\* C20 amended: the translator toward the Nicira wire enumeration maps
\* initial and added to added, removed to deleted, modified to modified,
\* abbrev to abbrev and faults on every other canonical event, namely paused
\* and resumed; the opposite translator is as stated.
C20_EventTranslators ==
    CanonicalEventToWire(FALSE) /\ WireEventToCanonical

\* An initial event has been translated, to the wire code of added.
C20_Witness ==
    /\ EventCalled("event_to_nx")
    /\ flg.input = OFPFME_INITIAL
    /\ EventMapped(NXFME_ADDED)

(***************************************************************************)
(* The caller's update across ofputil_append_flow_update.                  *)
(***************************************************************************)
\* The last append call ran into OVS_NOT_REACHED() and did not return.
AppendAborted == pc = "aborted" /\ calls = <<>> /\ sent # <<>>

AppendReturned(i) == i \in 1..Len(sent) /\ (i = Len(sent) => ~AppendAborted)

\* C21: after every call of ofputil_append_flow_update that returns, in
\* every protocol and for every event, match.flow.tunnel.metadata.tab of the
\* caller's update is what it was before the call, and no other field of
\* the caller's update has changed.
C21_AppendRestoresUpdate ==
    \A i \in 1..Len(sent) :
        (replies # <<>> /\ AppendReturned(i))
            => /\ sent[i].tab = given[i].tab
               /\ sent[i] = given[i]

\* Appends have returned for a full record and for a pause marker of a 1.4+
\* protocol, with a table other than the caller's handed to the call.
C21_Witness ==
    /\ protocol = "OF14_OXM"
    /\ Len(sent) = 2
    /\ AppendReturned(2)
    /\ given[1].event = OFPFME_ADDED /\ given[1].match # <<>>
    /\ given[2].event = OFPFME_PAUSED
    /\ given[1].tab = "callers_table"
    /\ Len(replies[1].data) > 0

(***************************************************************************)
(* The 1.4+ cancel message under the request decoder.                      *)
(***************************************************************************)
\* The request decoder has been called on an encoded cancel until it
\* returned nonzero.
CancelRequestDecoded ==
    /\ pc = "done"
    /\ cancel.src = "encoded"
    /\ protocol \in OF14_UP

\* The message of ofputil_encode_flow_monitor_cancel for a 1.4+ protocol is
\* a flow-monitor request of one record, command delete, monitor id id.
CancelIsOneDeleteRecord ==
    (pc \in {"cancel", "decode_requests", "done"} /\ cancel.src = "encoded"
     /\ protocol \in OF14_UP)
        => /\ cancel.msg.front[1].raw = "OFPST14_FLOW_MONITOR_REQUEST"
           /\ Len(cancel.msg.data) = FMR_LEN
           /\ Slice(cancel.msg.data, 1, 4) = Htonl(cancel.id[1])
           /\ cancel.msg.data[FMR_LEN] = OFPFMC_DELETE

\* C22: for the 1.4+ protocols the message of
\* ofputil_encode_flow_monitor_cancel(id) is a flow-monitor request holding
\* exactly one record with command delete and monitor id id, and
\* ofputil_decode_flow_monitor_request on it succeeds, returning a request
\* with command delete and the same id, and then returns EOF.
C22_CancelDecodesAsDelete ==
    /\ CancelIsOneDeleteRecord
    /\ CancelRequestDecoded
          => /\ Len(calls) = 2
             /\ calls[1].ret = "0"
             /\ calls[1].rec.command = OFPFMC_DELETE
             /\ calls[1].rec.id = Htonl(cancel.id[1])
             /\ calls[2].ret = "EOF"

(***************************************************************************)
(* The port and group filters of a decoded flow-monitor request.           *)
(***************************************************************************)
\* What the claim has in out_port and out_group after the decode call c
\* returned 0: the values of the wire record, OFPG_ANY where the record has
\* no group, and OFPP_NONE and OFPG_ANY for a 1.4+ delete record.
WirePortAndGroup(c) ==
    IF CallRaw = "NXST_FLOW_MONITOR_REQUEST"
    THEN [out_port |-> Ntohs(c.data, 6), out_group |-> OFPG_ANY]
    ELSE IF CallRaw = "ONFST13_FLOW_MONITOR_REQUEST"
    THEN [out_port |-> Ntohs(c.data, 10), out_group |-> OFPG_ANY]
    ELSE IF CallExempt(c)
    THEN [out_port |-> OFPP_NONE, out_group |-> OFPG_ANY]
    ELSE [out_port |-> Ntohs(c.data, 6), out_group |-> Slice(c.data, 9, 12)]

PortAndGroupDecoded(c) ==
    /\ c.rec.out_port = WirePortAndGroup(c).out_port
    /\ c.rec.out_group = WirePortAndGroup(c).out_group

RequestCallsMade ==
    pc \in {"decode_requests", "done"} /\ calls # <<>> /\ msg.header # <<>>

\* C23: after every successful call of ofputil_decode_flow_monitor_request,
\* out_port and out_group hold the value of the wire record or the
\* sentinels: out_group is OFPG_ANY for Nicira and ONF records, and for a
\* 1.4+ delete record out_port is OFPP_NONE and out_group is OFPG_ANY; they
\* are never what the caller's struct held before the call.
C23_PortAndGroupNeverStale ==
    RequestCallsMade
        => \A i \in 1..Len(calls) :
              calls[i].ret = "0" => PortAndGroupDecoded(calls[i])

\* The same for the records other than a 1.4+ delete.
PortAndGroupDecodedUnlessDelete ==
    RequestCallsMade
        => \A i \in 1..Len(calls) :
              (calls[i].ret = "0" /\ ~CallExempt(calls[i]))
                  => PortAndGroupDecoded(calls[i])

(***************************************************************************)
(* The command of a decoded flow-monitor request.                          *)
(***************************************************************************)
FmrCommands == {OFPFMC_ADD, OFPFMC_MODIFY, OFPFMC_DELETE}

\* C24: every request that ofputil_decode_flow_monitor_request returns
\* successfully has command add, modify or delete: a 1.4+ wire record whose
\* command byte has another value is rejected with an error and never
\* handed to the caller as a decoded request.
C24_DecodedCommandKnown ==
    RequestCallsMade
        => \A i \in 1..Len(calls) :
              /\ calls[i].ret = "0" => calls[i].rec.command \in FmrCommands
              /\ (/\ CallRaw = "OFPST14_FLOW_MONITOR_REQUEST"
                  /\ Len(calls[i].data) >= FMR_LEN
                  /\ calls[i].data[FMR_LEN] \notin FmrCommands)
                     => calls[i].ret \notin {"0", "EOF"}

\* The same for the Nicira and ONF records, which have no command byte.
DecodedCommandAddBefore14 ==
    (RequestCallsMade /\ CallRaw # "OFPST14_FLOW_MONITOR_REQUEST")
        => \A i \in 1..Len(calls) :
              calls[i].ret = "0" => calls[i].rec.command = OFPFMC_ADD

(***************************************************************************)
(* The length ofputil_decode_flow_update hands to the action puller.       *)
(***************************************************************************)
UpdateCallsMade ==
    pc \in {"decode_updates", "done", "aborted"} /\ calls # <<>>
    /\ msg.header # <<>>

\* The decode call c got as far as the action puller.
PullerInvoked(c) == c.len # <<>>

\* The unsigned subtraction did not wrap: the difference as an integer is
\* not negative.
NoWrap(c) == c.len[1] >= 0

\* C25: when ofputil_decode_flow_update derives the length of the actions
\* or instructions of a full record as length - sizeof prefix - padded match
\* length, the subtraction never wraps: whenever the action puller is
\* invoked the prefix and the padded match fit in the declared length, in
\* both wire families, also when the match's own length is larger than
\* what the declared length leaves after the prefix.
C25_ActionsLenNeverWraps ==
    UpdateCallsMade
        => \A i \in 1..Len(calls) :
              PullerInvoked(calls[i])
                  => /\ NoWrap(calls[i])
                     /\ calls[i].len[1] + FU_FULL_LEN <= Ntohs(calls[i].data, 0)

\* The same for the Nicira replies, whose match length is a field of the
\* fixed part and is checked against the declared length.
NxActionsLenNeverWraps ==
    (UpdateCallsMade /\ msg.header[1].raw = "NXST_FLOW_MONITOR_REPLY")
        => \A i \in 1..Len(calls) :
              PullerInvoked(calls[i]) => NoWrap(calls[i])

(***************************************************************************)
(* The cursor after a decode call that returned an error.                  *)
(***************************************************************************)
UpdateCallFailed(c) == c.ret \notin {"0", "EOF", "ABORT"}

\* C26: a call of ofputil_decode_flow_update that returns an error (bad
\* length, bad event, or an error of the match or action puller) consumes
\* no bytes: the cursor's data and size after the call are those before it.
C26_FailedDecodeConsumesNothing ==
    UpdateCallsMade
        => \A i \in 1..Len(calls) :
              UpdateCallFailed(calls[i]) => Consumed(calls[i]) = 0

\* What a failed call consumes: nothing when the error is found in the
\* record header or is a bad event, the fixed part of a full record or more
\* otherwise.
FailedDecodeConsumesNothingOrPrefix ==
    UpdateCallsMade
        => \A i \in 1..Len(calls) :
              UpdateCallFailed(calls[i])
                  => /\ Consumed(calls[i]) = 0
                        \/ Consumed(calls[i]) >= FU_FULL_LEN
                     /\ calls[i].ret = "NXBRC_FM_BAD_EVENT"
                           => Consumed(calls[i]) = 0
                     /\ PullerInvoked(calls[i])
                           => Consumed(calls[i]) >= FU_FULL_LEN

=============================================================================
